---- MODULE Spec2Model ----
(***************************************************************************)
(* Notification pipeline of xshopai/notification-service.                  *)
(*                                                                         *)
(* One inbound event at a time is taken through                            *)
(*   entry (direct call | POST /events/<topic> | RabbitMQ delivery)        *)
(*   -> NotificationService.processNotificationEvent                       *)
(*        normalize -> render -> dispatch -> publish outcome               *)
(*   -> handleEvent response (200 / 500)                                   *)
(*   -> RabbitMQ consume callback ack / nack.                              *)
(* Every await of the code is a step boundary of the model.                *)
(***************************************************************************)
EXTENDS Integers, Sequences, FiniteSets, TLC

(***************************************************************************)
(* JavaScript values.  A value is a tagged record; an object carries a     *)
(* function from its own keys to values.                                   *)
(***************************************************************************)
Undef == [t |-> "undef"]

Null == [t |-> "null"]

\* A string is kept as the non-empty sequence of its dot-separated segments:
\* "user.created" is <<"user", "created">> and "" is <<"">>.
Str(s) == [t |-> "str", s |-> s]

EmptyString == <<"">>

Num(n) == [t |-> "num", n |-> n]

Obj(f) == [t |-> "obj", o |-> f]

EmptyObj == Obj([k \in {} |-> Undef])

\* !!v
Truthy(v) ==
    \/ v.t = "obj"
    \/ v.t = "str" /\ v.s # EmptyString
    \/ v.t = "num" /\ v.n # 0

\* typeof v === 'string'
IsString(v) == v.t = "str"

\* v.k : reading a property of a primitive yields undefined
Get(v, k) == IF v.t = "obj" /\ k \in DOMAIN v.o THEN v.o[k] ELSE Undef

\* a || b
Or(a, b) == IF Truthy(a) THEN a ELSE b

\* obj.k = v on an object
Put(obj, k, v) ==
    Obj([x \in DOMAIN obj.o \cup {k} |-> IF x = k THEN v ELSE obj.o[x]])

\* Object.keys(v)
Keys(v) == IF v.t = "obj" THEN DOMAIN v.o ELSE {}

(***************************************************************************)
(* Static tables of the program.                                           *)
(***************************************************************************)
\* event types of DEFAULT_TEMPLATES; every entry has channel 'email'
DEFAULT_TEMPLATES ==
    { <<"auth", "user", "registered">>,
      <<"auth", "email", "verification", "requested">>,
      <<"auth", "password", "reset", "requested">>,
      <<"auth", "password", "reset", "completed">>,
      <<"order", "placed">>, <<"order", "cancelled">>,
      <<"order", "delivered">>, <<"order", "shipped">>,
      <<"payment", "received">>, <<"payment", "failed">> }

\* exports of events.controller.ts: export name -> eventType bound by handleEvent
ControllerExports ==
    [ handleAuthUserRegistered |-> <<"auth", "user", "registered">>,
      handleAuthEmailVerificationRequested |-> <<"auth", "email", "verification", "requested">>,
      handleAuthPasswordResetRequested |-> <<"auth", "password", "reset", "requested">>,
      handleAuthPasswordResetCompleted |-> <<"auth", "password", "reset", "completed">>,
      handleUserCreated |-> <<"user", "created">>,
      handleUserUpdated |-> <<"user", "updated">>,
      handleUserDeleted |-> <<"user", "deleted">>,
      handleUserEmailVerified |-> <<"user", "email", "verified">>,
      handleUserPasswordChanged |-> <<"user", "password", "changed">>,
      handleOrderCreated |-> <<"order", "created">>,
      handleOrderCancelled |-> <<"order", "cancelled">>,
      handleOrderDelivered |-> <<"order", "delivered">>,
      handleOrderShipped |-> <<"order", "shipped">>,
      handlePaymentReceived |-> <<"payment", "received">>,
      handlePaymentFailed |-> <<"payment", "failed">>,
      handleProfilePasswordChanged |-> <<"profile", "password_changed">>,
      handleProfileNotificationPreferencesUpdated |-> <<"profile", "notification_preferences_updated">>,
      handleProfileBankDetailsUpdated |-> <<"profile", "bank_details_updated">> ]

\* TOPIC_HANDLERS of event.router.ts: topic -> name of the controller export it calls
TOPIC_HANDLERS ==
    ( <<"auth", "user", "registered">> :> "handleAuthUserRegistered" ) @@
    ( <<"auth", "email", "verification", "requested">> :> "handleAuthEmailVerificationRequested" ) @@
    ( <<"auth", "password", "reset", "requested">> :> "handleAuthPasswordResetRequested" ) @@
    ( <<"auth", "password", "reset", "completed">> :> "handleAuthPasswordResetCompleted" ) @@
    ( <<"user", "created">> :> "handleUserCreated" ) @@
    ( <<"user", "updated">> :> "handleUserUpdated" ) @@
    ( <<"user", "deleted">> :> "handleUserDeleted" ) @@
    ( <<"user", "email", "verified">> :> "handleUserEmailVerified" ) @@
    ( <<"user", "password", "changed">> :> "handleUserPasswordChanged" ) @@
    ( <<"order", "placed">> :> "handleOrderPlaced" ) @@
    ( <<"order", "cancelled">> :> "handleOrderCancelled" ) @@
    ( <<"order", "delivered">> :> "handleOrderDelivered" ) @@
    ( <<"order", "shipped">> :> "handleOrderShipped" ) @@
    ( <<"payment", "received">> :> "handlePaymentReceived" ) @@
    ( <<"payment", "failed">> :> "handlePaymentFailed" ) @@
    ( <<"profile", "password_changed">> :> "handleProfilePasswordChanged" ) @@
    ( <<"profile", "notification_preferences_updated">> :> "handleProfileNotificationPreferencesUpdated" ) @@
    ( <<"profile", "bank_details_updated">> :> "handleProfileBankDetailsUpdated" )

\* POST /events/<topic> routes of events.routes.ts: topic -> controller export
EventRoutes ==
    ( <<"auth", "user", "registered">> :> "handleAuthUserRegistered" ) @@
    ( <<"auth", "email", "verification", "requested">> :> "handleAuthEmailVerificationRequested" ) @@
    ( <<"auth", "password", "reset", "requested">> :> "handleAuthPasswordResetRequested" ) @@
    ( <<"auth", "password", "reset", "completed">> :> "handleAuthPasswordResetCompleted" ) @@
    ( <<"user", "created">> :> "handleUserCreated" ) @@
    ( <<"user", "updated">> :> "handleUserUpdated" ) @@
    ( <<"user", "deleted">> :> "handleUserDeleted" ) @@
    ( <<"user", "email", "verified">> :> "handleUserEmailVerified" ) @@
    ( <<"user", "password", "changed">> :> "handleUserPasswordChanged" ) @@
    ( <<"order", "created">> :> "handleOrderCreated" ) @@
    ( <<"order", "cancelled">> :> "handleOrderCancelled" ) @@
    ( <<"order", "delivered">> :> "handleOrderDelivered" ) @@
    ( <<"order", "shipped">> :> "handleOrderShipped" ) @@
    ( <<"payment", "received">> :> "handlePaymentReceived" ) @@
    ( <<"payment", "failed">> :> "handlePaymentFailed" ) @@
    ( <<"profile", "password_changed">> :> "handleProfilePasswordChanged" ) @@
    ( <<"profile", "notification_preferences_updated">> :> "handleProfileNotificationPreferencesUpdated" ) @@
    ( <<"profile", "bank_details_updated">> :> "handleProfileBankDetailsUpdated" )

\* path of a route registered under /events/
EventsRoute(topic) == [prefix |-> "/events/", name |-> topic]

\* SUBSCRIPTIONS of dapr.routes.ts, returned by GET /dapr/subscribe
SUBSCRIPTIONS ==
    { [pubsubname |-> "pubsub", topic |-> t, route |-> EventsRoute(t)] : t \in
        { <<"auth", "user", "registered">>,
          <<"auth", "email", "verification", "requested">>,
          <<"auth", "password", "reset", "requested">>,
          <<"auth", "password", "reset", "completed">>,
          <<"user", "user", "created">>, <<"user", "user", "updated">>,
          <<"user", "user", "deleted">>,
          <<"user", "email", "verified">>, <<"user", "password", "changed">>,
          <<"order", "placed">>, <<"order", "cancelled">>, <<"order", "delivered">>,
          <<"payment", "received">>, <<"payment", "failed">>,
          <<"profile", "password_changed">>,
          <<"profile", "notification_preferences_updated">>,
          <<"profile", "bank_details_updated">> } }

\* export function getSubscriptionTopics(): Object.keys(TOPIC_HANDLERS)
GetSubscriptionTopics == DOMAIN TOPIC_HANDLERS

\* the paths for which events.routes.ts registers a POST handler
PostRoutes == { EventsRoute(t) : t \in DOMAIN EventRoutes }

(***************************************************************************)
(* NotificationService.processNotificationEvent: normalization.            *)
(***************************************************************************)
\* mutation: the legacy double nesting is never unwrapped
EventDataPath_NoLegacy(ce) ==
    IF ~Truthy(Get(ce, "data")) THEN "root" ELSE "data"

\* which object of the payload eventData refers to
EventDataPath(ce) ==
    LET d == Get(ce, "data") IN
    IF ~Truthy(d) THEN "root"
    ELSE LET dd == Get(d, "data") IN
         IF /\ Truthy(dd)
            /\ dd.t = "obj"
            /\ \/ Truthy(Get(dd, "email"))
               \/ Truthy(Get(dd, "userId"))
               \/ Truthy(Get(dd, "firstName"))
         THEN "data.data"
         ELSE "data"

At(ce, path) ==
    CASE path = "root" -> ce
      [] path = "data" -> Get(ce, "data")
      [] path = "data.data" -> Get(Get(ce, "data"), "data")

\* the payload after eventData, which is a reference into it, was assigned to
WriteBack(ce, path, ed) ==
    CASE path = "root" -> ed
      [] path = "data" -> Put(ce, "data", ed)
      [] path = "data.data" -> Put(ce, "data", Put(Get(ce, "data"), "data", ed))

\* mutation: username is preferred to email
EnsureUserId_UsernameFirst(ed) ==
    IF /\ ~Truthy(Get(ed, "userId"))
       /\ Truthy(Or(Get(ed, "email"), Get(ed, "username")))
    THEN Put(ed, "userId", Or(Get(ed, "username"), Get(ed, "email")))
    ELSE ed

\* if (!eventData.userId && (eventData.email || eventData.username)) eventData.userId = ...
\* (on a primitive both reads are undefined and nothing is assigned)
EnsureUserId(ed) ==
    IF /\ ~Truthy(Get(ed, "userId"))
       /\ Truthy(Or(Get(ed, "email"), Get(ed, "username")))
    THEN Put(ed, "userId", Or(Get(ed, "email"), Get(ed, "username")))
    ELSE ed

\* Outcome of the code from its first line up to the validation of eventType.
\*   threw   : reading a property of null/undefined, or (module code is strict)
\*             creating a property on a primitive eventData
\*   skipped : 'Invalid event structure, missing eventType'
NormalizeEvent(ce, eventType) ==
    IF ce.t \in {"null", "undef"}
    THEN [status |-> "threw", eventData |-> Undef, cloudEvent |-> ce]
    ELSE LET path == EventDataPath(ce)
             ed0 == At(ce, path)
             ed1 == EnsureUserId(ed0)
         IN  IF Truthy(Get(ed1, "eventType"))
             THEN [status |-> "ok", eventData |-> ed1,
                   cloudEvent |-> WriteBack(ce, path, ed1)]
             ELSE IF ed1.t # "obj"
             THEN [status |-> "threw", eventData |-> ed1, cloudEvent |-> ce]
             ELSE LET ed2 == Put(ed1, "eventType", Str(eventType)) IN
                  [status |-> IF Truthy(Get(ed2, "eventType")) THEN "ok" ELSE "skipped",
                   eventData |-> ed2,
                   cloudEvent |-> WriteBack(ce, path, ed2)]

(***************************************************************************)
(* Rendering (renderNotification and what it calls).                       *)
(***************************************************************************)
\* TemplateService.getTemplate(eventType, 'email') finds a template; the key
\* `${eventType}:email` of a non-string eventType names no catalog entry
HasTemplate(et) == IsString(et) /\ et.s \in DEFAULT_TEMPLATES

\* keys of the variable set built by prepareTemplateVariables
TemplateVariableKeys(ed) ==
    {"userId", "userEmail", "userPhone", "eventType", "timestamp"}
        \cup (Keys(ed) \ {"data"})
        \cup (IF Truthy(Get(ed, "data")) THEN Keys(Get(ed, "data")) ELSE {})

\* keys k for which new RegExp(`\{\{${k}\}\}`, 'g') is a syntax error
\* (k is spliced into the pattern unescaped)
InvalidPatternKeys == {"a("}

\* renderNotification throws: with a template, renderTemplate builds a RegExp
\* from every variable key; without one, createBasicNotification calls
\* eventData.eventType.split('.'), which only a string has
RenderThrows(ed) ==
    IF HasTemplate(Get(ed, "eventType"))
    THEN TemplateVariableKeys(ed) \cap InvalidPatternKeys # {}
    ELSE ~IsString(Get(ed, "eventType"))

\* Text is a sequence of tokens: Lit(s) is literal text without braces,
\* Ph(n) is the text {{n}}, NumText(n) the decimal digits of n.
Lit(s) == [k |-> "lit", s |-> s]

Ph(n) == [k |-> "ph", n |-> n]

NumText(n) == [k |-> "num", n |-> n]

\* the text of one segment of a string value
Tokenize(seg) ==
    IF seg = "{{resetUrl}}" THEN Ph("resetUrl") ELSE Lit(seg)

RECURSIVE SegmentsText(_)
\* the text of a string value, whose segments are joined by dots
SegmentsText(segs) ==
    IF Len(segs) = 0 THEN << >>
    ELSE IF Len(segs) = 1 THEN << Tokenize(segs[1]) >>
    ELSE << Tokenize(segs[1]), Lit(".") >> \o SegmentsText(Tail(segs))

\* variables[key] !== undefined && variables[key] !== null ? String(variables[key]) : ''
StringOf(v) ==
    CASE v.t = "str" -> IF v.s = EmptyString THEN << >> ELSE SegmentsText(v.s)
      [] v.t = "num" -> << NumText(v.n) >>
      [] v.t = "obj" -> << Lit("[object Object]") >>
      [] OTHER -> << >>

\* the placeholder names that new RegExp(`\{\{${key}\}\}`, 'g') matches: the
\* key is spliced in as a pattern, so the dot of first.name matches any
\* character
PatternMatches(key, name) ==
    \/ key = name
    \/ key = "first.name" /\ name = "first_name"

RECURSIVE ExpandReplacement(_, _)
\* what String.prototype.replace inserts for the replacement string `value`:
\* $& stands for the matched text and $$ for one dollar sign
ExpandReplacement(value, matched) ==
    IF Len(value) = 0 THEN << >>
    ELSE LET tok == value[1]
             out == IF tok = Lit("$&") THEN << matched >>
                    ELSE IF tok = Lit("$$") THEN << Lit("$") >>
                    ELSE << tok >>
         IN  out \o ExpandReplacement(Tail(value), matched)

RECURSIVE ReplaceAll(_, _, _)
\* text.replace(regex, value) for the regex built from key
ReplaceAll(text, key, value) ==
    IF Len(text) = 0 THEN << >>
    ELSE LET tok == text[1]
             out == IF tok.k = "ph" /\ PatternMatches(key, tok.n)
                    THEN ExpandReplacement(value, tok)
                    ELSE << tok >>
         IN  out \o ReplaceAll(Tail(text), key, value)

\* Object.keys order of the variable sets of the model: the five fields
\* prepareTemplateVariables writes first, then the payload keys in the order
\* the inputs are written
KeyOrder ==
    << "userId", "userEmail", "userPhone", "eventType", "timestamp",
       "email", "firstName", "username", "name", "resetUrl", "subject",
       "first.name", "a(", "orderId", "eventId" >>

RECURSIVE SubstituteFrom(_, _, _)
\* the forEach of renderTemplate over the keys from position i on
SubstituteFrom(text, i, variables) ==
    IF i > Len(KeyOrder) THEN text
    ELSE IF KeyOrder[i] \in Keys(variables)
    THEN SubstituteFrom(ReplaceAll(text, KeyOrder[i], StringOf(variables.o[KeyOrder[i]])),
                        i + 1, variables)
    ELSE SubstituteFrom(text, i + 1, variables)

NotRendered == [status |-> "none"]

\* TemplateService.renderTemplate
RenderTemplate(template, variables) ==
    IF Keys(variables) \cap InvalidPatternKeys # {}
    THEN [status |-> "threw"]
    ELSE [status |-> "ok",
          subject |-> SubstituteFrom(template.subject, 1, variables),
          message |-> SubstituteFrom(template.message_template, 1, variables)]

\* word.charAt(0).toUpperCase() + word.slice(1), for the segments of the
\* event types of the model; a segment that does not begin with a lower-case
\* letter is returned as it is
Capitalize(word) ==
    CASE word = "user" -> "User"
      [] word = "deleted" -> "Deleted"
      [] word = "auth" -> "Auth"
      [] word = "password" -> "Password"
      [] word = "reset" -> "Reset"
      [] word = "requested" -> "Requested"
      [] word = "x" -> "X"
      [] OTHER -> word

RECURSIVE JoinCapitalized(_)
\* .map(capitalize).join(' ')
JoinCapitalized(words) ==
    IF Len(words) = 0 THEN << >>
    ELSE IF Len(words) = 1 THEN << Lit(Capitalize(words[1])) >>
    ELSE << Lit(Capitalize(words[1])), Lit(" ") >> \o JoinCapitalized(Tail(words))

\* JSON.stringify(value, null, 2)
JsonText(v) == [k |-> "json", v |-> v]

\* NotificationService.createBasicNotification: split is a method of strings
\* only, so an eventType of another type makes the call throw
CreateBasicNotification(ed) ==
    LET et == Get(ed, "eventType") IN
    IF ~IsString(et) THEN [status |-> "threw"]
    ELSE LET eventTypeFormatted == JoinCapitalized(et.s) IN
         [status |-> "ok",
          subject |-> eventTypeFormatted,
          message |-> eventTypeFormatted \o << Lit(" notification") >>
                      \o (IF Truthy(Get(ed, "data"))
                          THEN << Lit("\n\n"), JsonText(Get(ed, "data")) >>
                          ELSE << >>)]

BaseKeys == {"userId", "userEmail", "userPhone", "eventType", "timestamp"}

\* the own properties Object.assign copies from eventData.data
DataEntries(ed) ==
    LET d == Get(ed, "data") IN
    IF d.t = "obj" THEN d.o ELSE [k \in {} |-> Undef]

\* the root-level properties the forEach of prepareTemplateVariables copies
TopEntries(ed) ==
    [k \in {x \in Keys(ed) \ {"data"} : ed.o[x] # Undef} |-> ed.o[k]]

\* mutation: root-level values win over nested data
PrepareTemplateVariables_TopWins(ed) ==
    Obj(TopEntries(ed) @@ DataEntries(ed) @@ [k \in BaseKeys |-> Get(ed, k)])

\* NotificationService.prepareTemplateVariables
PrepareTemplateVariables(ed) ==
    Obj(DataEntries(ed) @@ TopEntries(ed) @@ [k \in BaseKeys |-> Get(ed, k)])

(***************************************************************************)
(* TemplateService: the registry built by loadDefaultTemplates and          *)
(* getTemplate.                                                             *)
(***************************************************************************)
CatalogEntry(et, ch, name) == [event_type |-> et, channel |-> ch, template_name |-> name]

\* DEFAULT_TEMPLATES in source order, each with its event_type, channel and
\* template_name
DefaultCatalog ==
    << CatalogEntry(<<"auth", "user", "registered">>, "email", "User Registration"),
       CatalogEntry(<<"auth", "email", "verification", "requested">>, "email", "Email Verification"),
       CatalogEntry(<<"auth", "password", "reset", "requested">>, "email", "Password Reset"),
       CatalogEntry(<<"auth", "password", "reset", "completed">>, "email", "Password Reset Confirmed"),
       CatalogEntry(<<"order", "placed">>, "email", "Order Confirmation"),
       CatalogEntry(<<"order", "cancelled">>, "email", "Order Cancelled"),
       CatalogEntry(<<"order", "delivered">>, "email", "Order Delivered"),
       CatalogEntry(<<"order", "shipped">>, "email", "Order Shipped"),
       CatalogEntry(<<"payment", "received">>, "email", "Payment Received"),
       CatalogEntry(<<"payment", "failed">>, "email", "Payment Failed") >>

\* the characters of a piece of text, as far as the key is concerned: a piece
\* with a colon in it is the pieces around the colon
Atoms(piece) ==
    CASE piece = "placed:email" -> << "placed", ":", "email" >>
      [] OTHER -> << piece >>

RECURSIVE DottedText(_)
\* the text of a string whose segments are joined by dots
DottedText(segs) ==
    IF Len(segs) = 0 THEN << >>
    ELSE IF Len(segs) = 1 THEN Atoms(segs[1])
    ELSE Atoms(segs[1]) \o << "." >> \o DottedText(Tail(segs))

\* `${eventType}` in a template literal
InterpolatedText(v) ==
    CASE v.t = "str" -> DottedText(v.s)
      [] v.t = "num" -> << "number" >>
      [] v.t = "obj" -> << "[object Object]" >>
      [] v.t = "null" -> << "null" >>
      [] OTHER -> << "undefined" >>

\* const key = `${eventType}:${channel}`
TemplateKey(eventTypeValue, channel) ==
    InterpolatedText(eventTypeValue) \o << ":" >> \o Atoms(channel)

\* mutation: an entry already in the map is kept
MapSet_KeepFirst(map, key, value) ==
    IF key \in DOMAIN map THEN map ELSE (key :> value) @@ map

\* Map.prototype.set
MapSet(map, key, value) == (key :> value) @@ map

EmptyMap == [k \in {} |-> Null]

RECURSIVE LoadFrom(_, _, _)
\* the for loop of loadDefaultTemplates from entry i on
LoadFrom(map, catalog, i) ==
    IF i > Len(catalog) THEN map
    ELSE LoadFrom(MapSet(map, TemplateKey(Str(catalog[i].event_type), catalog[i].channel),
                         catalog[i]),
                  catalog, i + 1)

\* TemplateService.loadDefaultTemplates
LoadDefaultTemplates(catalog) == LoadFrom(EmptyMap, catalog, 1)

\* TemplateService.getTemplate
GetTemplate(map, eventTypeValue, channel) ==
    LET key == TemplateKey(eventTypeValue, channel) IN
    IF key \in DOMAIN map THEN map[key] ELSE Null

(***************************************************************************)
(* Dispatch and outcome publication.                                       *)
(***************************************************************************)
\* const recipientEmail = eventData.userEmail || eventData.email
RecipientEmail(ed) == Or(Get(ed, "userEmail"), Get(ed, "email"))

\* mutation: the enable flag is not consulted
ShouldDispatch_IgnoresEnabled(recipient, enabled) == Truthy(recipient)

\* if (recipientEmail && this.emailService.isEnabled())
ShouldDispatch(recipient, enabled) == Truthy(recipient) /\ enabled

\* what the email provider's sendEmail may do
ProviderSendOutcomes == {"ok", "fail", "throw"}

\* mutation: no try/catch around the provider call
SendNotificationEmail_Propagates(enabled, providerOutcome) ==
    IF ~enabled THEN "false"
    ELSE IF providerOutcome = "ok" THEN "true"
    ELSE IF providerOutcome = "throw" THEN "throw"
    ELSE "false"

\* EmailService.sendNotificationEmail: "true" | "false" | "throw"
SendNotificationEmail(enabled, providerOutcome) ==
    IF ~enabled THEN "false"
    ELSE IF providerOutcome = "ok" THEN "true"
    ELSE "false"

NOTIFICATION_SENT == "notification.sent"

NOTIFICATION_FAILED == "notification.failed"

NoOutcome == [eventType |-> "none"]

\* the event built by publishNotificationSent
NotificationSentEvent(ed, recipient) ==
    [eventType |-> NOTIFICATION_SENT,
     userId |-> Get(ed, "userId"),
     userEmail |-> recipient,
     originalEventType |-> Get(ed, "eventType"),
     channel |-> "email",
     recipientEmail |-> recipient,
     attemptNumber |-> 1]

\* the event built by publishNotificationFailed
NotificationFailedEvent(ed, recipient, errorMessage) ==
    [eventType |-> NOTIFICATION_FAILED,
     userId |-> Get(ed, "userId"),
     userEmail |-> recipient,
     originalEventType |-> Get(ed, "eventType"),
     channel |-> "email",
     recipientEmail |-> recipient,
     errorMessage |-> errorMessage,
     attemptNumber |-> 1]

\* mutation: the dispatcher's result is not looked at
OutcomeEvent_SentWhenDispatched(ed, recipient, dispatched, emailSent) ==
    IF dispatched
    THEN NotificationSentEvent(ed, recipient)
    ELSE NotificationFailedEvent(ed, recipient,
                                 "No email address or email service disabled")

\* the outcome processNotificationEvent hands to daprPublisher
OutcomeEvent(ed, recipient, dispatched, emailSent) ==
    IF dispatched /\ emailSent
    THEN NotificationSentEvent(ed, recipient)
    ELSE IF dispatched
    THEN NotificationFailedEvent(ed, recipient, "Email sending failed")
    ELSE NotificationFailedEvent(ed, recipient,
                                 "No email address or email service disabled")

\* what provider.publishEvent may do, seen from DaprEventPublisher
ProviderPublishOutcomes == {"true", "false", "throw"}

\* mutation: no try/catch in publishEvent
PublishEvent_Propagates(acquired, providerOutcome) ==
    IF ~acquired THEN "throw"
    ELSE providerOutcome

\* DaprEventPublisher.publishEvent: "true" | "false" | "throw".
\* acquired is FALSE when getMessagingProvider() rejects.
PublishEvent(acquired, providerOutcome) ==
    IF ~acquired THEN "false"
    ELSE IF providerOutcome = "true" THEN "true"
    ELSE "false"

\* mutation: the catch block logs and does not rethrow
ProcessCatch_Swallows == "returned"

\* the catch block of processNotificationEvent: log and rethrow
ProcessCatch == "threw"

(***************************************************************************)
(* Callers.                                                                *)
(***************************************************************************)
\* mutation: the catch block of handleEvent answers like the try block
HandleEventResponse_Always200(result) == [status |-> 200, body |-> "SUCCESS"]

\* handleEvent: status and body of the response for the way
\* processNotificationEvent ended
HandleEventResponse(result) ==
    IF result = "threw"
    THEN [status |-> 500, body |-> "ERROR"]
    ELSE [status |-> 200, body |-> "SUCCESS"]

\* handleEvent catches every exception, so its promise always resolves
HandleEventSettles(result) == "returned"

\* routeEventToHandler: 'com.xshopai.auth.user.registered' -> 'auth.user.registered'
RouteTopic(type) ==
    IF Len(type) >= 3 /\ type[1] = "com" /\ type[2] = "xshopai"
    THEN SubSeq(type, 3, Len(type))
    ELSE type

\* mutation: the message is acknowledged before the handler's result is known
ConsumeSettle_AlwaysAck(handlerResult) == "ack"

\* consume callback of RabbitMQMessagingProvider.subscribe
ConsumeSettle(handlerResult) ==
    IF handlerResult = "returned" THEN "ack" ELSE "nack"

\* routeEventToHandler up to the call of the topic's handler
RouteEvent(type) ==
    LET topic == RouteTopic(type) IN
    IF topic \notin DOMAIN TOPIC_HANDLERS
    THEN [kind |-> "unrouted", eventType |-> topic]
    ELSE IF TOPIC_HANDLERS[topic] \notin DOMAIN ControllerExports
    THEN [kind |-> "missing", eventType |-> topic]
    ELSE [kind |-> "handler", eventType |-> ControllerExports[TOPIC_HANDLERS[topic]]]

(***************************************************************************)
(* Bounds and inputs.                                                      *)
(***************************************************************************)
MaxRuns == 2

MaxQueue == 1

Email1 == Str(<<"a@b", "com">>)

Email2 == Str(<<"u@b", "com">>)

\* payload objects as producers send them
Registered == Obj([email |-> Email1, firstName |-> Str(<<"Al">>)])

OnlyUserId == Obj([userId |-> Str(<<"u1">>)])

OnlyUsername == Obj([username |-> Str(<<"al">>)])

BadKey == Obj([k \in {"email", "a("} |-> IF k = "email" THEN Email1 ELSE Str(<<"x">>)])

Leaves ==
    { EmptyObj, Registered, OnlyUserId, OnlyUsername, BadKey,
      Obj([userId |-> Str(<<"u1">>), userEmail |-> Email2, email |-> Email1]),
      Obj([eventType |-> Num(5), email |-> Email1]),
      Obj([eventType |-> Str(<<"custom", "event">>), email |-> Email1]),
      Obj([eventType |-> Str(EmptyString)]) }

\* the three envelope shapes: flat, wrapped under data, legacy double-nested
Flat(leaf) == leaf

Wrapped(leaf) == Obj([data |-> leaf])

Legacy(leaf) ==
    Obj([data |-> Obj([eventId |-> Str(<<"e1">>), data |-> leaf])])

PrimitiveData == Obj([data |-> Str(<<"abc">>)])

\* payloads: request bodies (express.json yields an object) and the first
\* argument of a direct call
Bodies ==
    {Flat(l) : l \in Leaves} \cup {Wrapped(l) : l \in Leaves}
        \cup {Legacy(l) : l \in {Registered, OnlyUserId, OnlyUsername}}
        \cup {PrimitiveData}

\* second arguments of a direct call
EventTypeArgs ==
    {EmptyString, <<"auth", "user", "registered">>, <<"custom", "event">>}

\* routes requests are posted to
HttpTopics == {<<"auth", "user", "registered">>, <<"user", "created">>}

Garbage == [t |-> "garbage"]

Text(v) == [t |-> "text", v |-> v]

\* JSON.parse(msg.content.toString()); NoValue stands for the SyntaxError
NoValue == [t |-> "none"]

JsonParse(content) == IF content.t = "text" THEN content.v ELSE NoValue

Message(content, routingKey) == [content |-> content, routingKey |-> routingKey]

\* mutation: a type field of the body is kept
ConsumedEvent_KeepBodyType(parsed, routingKey) ==
    IF "type" \in Keys(parsed) THEN parsed ELSE Put(parsed, "type", Str(routingKey))

\* consume callback: eventData.type = msg.fields.routingKey
ConsumedEvent(parsed, routingKey) == Put(parsed, "type", Str(routingKey))

\* messages that reach the service queue: through the bindings of subscribe,
\* through a binding left on the durable queue, or through the default
\* exchange (routing key = queue name)
Messages ==
    { Message(Text(Registered), <<"auth", "user", "registered">>),
      Message(Text(BadKey), <<"auth", "user", "registered">>),
      Message(Text(OnlyUserId), <<"user", "created">>),
      Message(Text(PrimitiveData), <<"user", "created">>),
      Message(Text(Registered), <<"order", "placed">>),
      Message(Text(OnlyUsername), <<"com", "xshopai", "user", "created">>),
      Message(Text(Put(Registered, "type", Str(<<"user", "created">>))),
              <<"notification-service-queue">>),
      Message(Text(Null), <<"user", "created">>),
      Message(Garbage, <<"user", "created">>) }

NoMsg == [content |-> NoValue, routingKey |-> EmptyString]

\* concurrent callers of getMessagingProvider
MaxCallers == 2
\* calls of getMessagingProvider in one process lifetime
MaxCalls == 3
\* calls of closeMessagingProvider / resetMessagingProvider
MaxClears == 1

Callers == 1..MaxCallers

\* values of process.env.MESSAGING_PROVIDER ("" : not set)
Envs == {"", "dapr", "RabbitMQ", "servicebus", "kafka"}

\* concurrent calls of one provider's publishEvent
MaxPublishers == 2
\* calls of publishEvent on one provider instance
MaxPublishes == 2
\* calls of close() on one provider instance
MaxCloses == 1

Publishers == 1..MaxPublishers

\* the three implementations of MessagingProvider
ProviderKinds == {"dapr", "rabbitmq", "servicebus"}

\* topics the service publishes to
PublishTopics == {"notification.sent", "notification.failed"}

\* deliveries the broker makes to the consumer
MaxTraceRuns == 3

MaxChannels == 2

MaxErrors == 1

MaxSends == 3

MaxDeliveries == 3
\* messages ready in the service queue
MaxReady == 2

\* logical payloads given to normalization in each envelope shape
NormLeaves ==
    Leaves \cup
    { Obj([firstName |-> Str(<<"Al">>)]),
      Obj([email |-> Email1, username |-> Str(<<"al">>)]),
      Obj([userId |-> Str(EmptyString), email |-> Email1]),
      Obj([email |-> Email1, data |-> Obj([orderId |-> Str(<<"o1">>)])]) }

Shapes == {"flat", "wrapped", "legacy"}

Shaped(shape, leaf) ==
    CASE shape = "flat" -> Flat(leaf)
      [] shape = "wrapped" -> Wrapped(leaf)
      [] shape = "legacy" -> Legacy(leaf)

NotRun == [status |-> "none"]

\* templates given to renderTemplate: two of DEFAULT_TEMPLATES (texts
\* shortened) and two more
RenderTemplates ==
    { [subject |-> << Lit("Reset your password") >>,
       message_template |-> << Lit("Hello "), Ph("username"), Lit(", reset: "), Ph("resetUrl") >>],
      [subject |-> << Lit("Welcome to xshopai!") >>,
       message_template |-> << Lit("Hello "), Ph("name"), Lit(", welcome") >>],
      [subject |-> << Ph("subject") >>,
       message_template |-> << Lit("Hi "), Ph("missingVar") >>],
      [subject |-> << >>,
       message_template |-> << Ph("first_name"), Lit(" "), Ph("name"), Ph("name"), Ph("userId") >>] }

ResetRequested == Str(<<"auth", "password", "reset", "requested">>)

Url == Str(<<"http://x">>)

\* normalized events given to prepareTemplateVariables
RenderEvents ==
    { Obj([eventType |-> ResetRequested]),
      Obj([eventType |-> ResetRequested, userId |-> Str(<<"u1">>), email |-> Email1,
           username |-> Str(<<"al">>), resetUrl |-> Url]),
      Obj([eventType |-> ResetRequested, subject |-> Str(<<"A">>),
           data |-> Obj([subject |-> Str(<<"B">>)])]),
      Obj([eventType |-> ResetRequested, username |-> Str(<<"$&">>), name |-> Str(<<"$$">>)]),
      Obj([eventType |-> ResetRequested, username |-> Str(<<"{{resetUrl}}">>), resetUrl |-> Url]),
      Obj([eventType |-> ResetRequested,
           data |-> Obj([k \in {"first.name"} |-> Str(<<"Al">>)])]),
      Obj([k \in {"eventType", "a("} |-> IF k = "eventType" THEN ResetRequested ELSE Str(<<"x">>)]),
      Obj([eventType |-> ResetRequested, name |-> Null, data |-> Obj([userId |-> Num(5)])]),
      Obj([eventType |-> ResetRequested, userId |-> Str(<<"u1">>), name |-> EmptyObj,
           data |-> Obj([userId |-> Str(<<"u2">>), eventType |-> Str(<<"x">>)])]),
      Obj([eventType |-> ResetRequested, name |-> Str(<<"Al">>), username |-> Str(EmptyString)]) }

\* normalized events whose event type has no template; processNotificationEvent
\* renders only events with a truthy eventType
UntemplatedEvents ==
    { Obj([eventType |-> Str(<<"user", "deleted">>)]),
      Obj([eventType |-> Str(<<"user", "deleted">>), email |-> Email1,
           data |-> Obj([userId |-> Str(<<"u2">>)])]),
      Obj([eventType |-> Str(<<"x">>), userId |-> Str(<<"u1">>)]),
      Obj([eventType |-> Str(<<"Order", "9x">>)]),
      Obj([eventType |-> Str(<<"auth", "", "reset">>)]),
      Obj([eventType |-> Str(<<"", "">>)]),
      Obj([eventType |-> Num(42), email |-> Email1]),
      Obj([eventType |-> Obj([x |-> Num(1)])]) }

(***************************************************************************)
(* Trace context: extraction in processNotificationEvent, the traceparent   *)
(* the publisher attaches, and the envelope buildCloudEvent builds.         *)
(***************************************************************************)
\* A trace header or an identifier is kept as the sequence of its
\* dash-separated pieces: "00-t1-s1-01" is <<"00", "t1", "s1", "01">>.
Dashed(pieces) == Str(pieces)

\* the n-th value uuidv4() returns: five groups joined by dashes
Uuid(n) == Dashed(<< ToString(n), "aaaa", "4aaa", "8aaa", "uuid" >>)

\* mutation: the header under data is preferred to the one at the root
TraceHeader_DataFirst(ce) ==
    Or(Or(Get(Get(ce, "data"), "traceparent"), Get(ce, "traceparent")),
       Get(Get(ce, "headers"), "traceparent"))

\* cloudEvent.traceparent || cloudEvent.data?.traceparent || cloudEvent.headers?.traceparent
TraceHeader(ce) ==
    Or(Or(Get(ce, "traceparent"), Get(Get(ce, "data"), "traceparent")),
       Get(Get(ce, "headers"), "traceparent"))

\* traceparent.includes('-')
IncludesDash(tp) == Len(tp.s) > 1

\* traceparent.split('-')[i], counted from 0
SplitDashAt(tp, i) == IF i + 1 <= Len(tp.s) THEN Dashed(<< tp.s[i + 1] >>) ELSE Undef

\* mutation: the notification id is derived from the trace id
MintNotificationId_FromTrace(traceId, n) == traceId

\* const notificationId = uuidv4()
MintNotificationId(traceId, n) == Uuid(n)

\* lines 313-320 of processNotificationEvent, with `minted` uuids handed out
\* before. A truthy header that is not a string has no includes method, and
\* the statement is outside the try block.
ExtractTraceContext(ce, minted) ==
    LET traceparent == TraceHeader(ce)
        needsUuid == ~Truthy(traceparent) /\ ~Truthy(Get(ce, "id"))
        afterTrace == IF needsUuid THEN minted + 1 ELSE minted
    IN  IF Truthy(traceparent) /\ ~IsString(traceparent)
        THEN [status |-> "threw", minted |-> minted]
        ELSE LET traceId ==
                     IF Truthy(traceparent)
                     THEN IF IncludesDash(traceparent)
                          THEN SplitDashAt(traceparent, 1)
                          ELSE traceparent
                     ELSE Or(Get(ce, "id"), Uuid(minted + 1))
             IN  [status |-> "ok",
                  traceId |-> traceId,
                  spanId |-> IF Truthy(traceparent) /\ IncludesDash(traceparent)
                             THEN SplitDashAt(traceparent, 2)
                             ELSE Undef,
                  notificationId |-> MintNotificationId(traceId, afterTrace + 1),
                  minted |-> afterTrace + 1]

\* `${v}` in a template literal, as dash-separated pieces
InterpolatedPieces(v) ==
    CASE v.t = "str" -> v.s
      [] v.t = "undef" -> << "undefined" >>
      [] v.t = "null" -> << "null" >>
      [] OTHER -> << "[object Object]" >>

\* spanId ? `00-${traceId}-${spanId}-01` : `00-${traceId}-${'0'.repeat(16)}-01`
TraceparentOf(traceId, spanId) ==
    Dashed(<< "00" >> \o InterpolatedPieces(traceId)
           \o (IF Truthy(spanId) THEN InterpolatedPieces(spanId)
               ELSE << "0000000000000000" >>)
           \o << "01" >>)

\* mutation: the envelope id is always generated
BuildCloudEvent_AlwaysFresh(eventType, data, correlationId, minted) ==
    [specversion |-> "1.0",
     type |-> eventType,
     id |-> Uuid(minted + 1),
     data |-> data,
     correlationId |-> correlationId,
     minted |-> minted + 1]

\* buildCloudEvent(eventType, source, data, correlationId), with `minted`
\* uuids handed out before
BuildCloudEvent(eventType, data, correlationId, minted) ==
    [specversion |-> "1.0",
     type |-> eventType,
     id |-> Or(correlationId, Uuid(minted + 1)),
     data |-> data,
     correlationId |-> correlationId,
     minted |-> IF Truthy(correlationId) THEN minted ELSE minted + 1]

\* DaprEventPublisher.publishEvent down to the envelope the provider sends:
\* eventData = {...data, traceparent}, provider.publishEvent(eventType,
\* eventData, traceId)
PublishedEnvelope(payload, ctx, minted) ==
    BuildCloudEvent(payload.eventType,
                    [notificationId |-> ctx.notificationId,
                     traceparent |-> TraceparentOf(ctx.traceId, ctx.spanId)]
                        @@ payload,
                    ctx.traceId, minted)

H1 == Dashed(<< "00", "t1", "s1", "01" >>)

H2 == Dashed(<< "00", "t2", "s2", "01" >>)

H3 == Dashed(<< "00", "t3", "s3", "01" >>)

DeliveryId == Dashed(<< "d1" >>)

\* inbound envelopes, by where they carry a trace header and a delivery id
TraceEnvelopes ==
    { Obj([traceparent |-> H1, data |-> Obj([traceparent |-> H2]),
           headers |-> Obj([traceparent |-> H3]), id |-> DeliveryId]),
      Obj([data |-> Obj([traceparent |-> H2, email |-> Email1]),
           headers |-> Obj([traceparent |-> H3])]),
      Obj([headers |-> Obj([traceparent |-> H3]), id |-> DeliveryId]),
      Obj([traceparent |-> Str(EmptyString), data |-> Obj([traceparent |-> H2])]),
      Obj([id |-> DeliveryId, data |-> Obj([email |-> Email1])]),
      Obj([id |-> Dashed(<< "e1", "e2", "e3", "e4", "e5" >>)]),
      EmptyObj,
      Obj([data |-> Obj([email |-> Email1])]),
      Obj([traceparent |-> Dashed(<< "abc" >>)]),
      Obj([traceparent |-> Dashed(<< "00", "t4" >>)]),
      Obj([traceparent |-> Dashed(<< "00", "", "s5", "01" >>), id |-> DeliveryId]),
      Obj([traceparent |-> Num(5)]) }

NoContext == [status |-> "none"]

\* catalogs given to loadDefaultTemplates: DEFAULT_TEMPLATES, and
\* DEFAULT_TEMPLATES followed by entries that repeat a key or add a channel
Catalogs ==
    { DefaultCatalog,
      DefaultCatalog \o << CatalogEntry(<<"order", "placed">>, "email", "Order Confirmation v2") >>,
      DefaultCatalog \o << CatalogEntry(<<"order", "placed">>, "sms", "Order SMS"),
                           CatalogEntry(<<"order", "placed">>, "sms", "Order SMS v2"),
                           CatalogEntry(<<"order">>, "email", "Order") >> }

\* eventType arguments of getTemplate
RequestedEventTypes ==
    { Str(<<"order", "placed">>), Str(<<"order">>), Str(<<"order", "placed", "extra">>),
      Str(<<"order", "*">>), Str(<<"*">>), Str(<<"ORDER", "PLACED">>),
      Str(<<"user", "deleted">>), Str(<<"payment", "failed">>), Num(42), Undef }

\* channel arguments of getTemplate
RequestedChannels == {"email", "sms", "push", "placed:email"}

NotLoaded == [status |-> "notLoaded"]

NotCalled == [status |-> "notCalled"]

(***************************************************************************)
(* State.                                                                  *)
(***************************************************************************)
VARIABLES
    emailEnabled,    \* EmailService.enabled
    queue,           \* the durable service queue at the broker
    inflight,        \* the unsettled delivery (prefetch 1), or NoMsg
    runs,            \* inbound events taken so far
    caller,          \* "none" | "direct" | "http" | "broker"
    pc,              \* position of the run in progress
    cloudEvent,      \* first argument of processNotificationEvent
    eventType,       \* second argument of processNotificationEvent
    eventData,       \* the normalized event
    skipped,         \* the run took the 'missing eventType' exit
    result,          \* "none" | "returned" | "threw" : how processNotificationEvent ended
    recipientEmail,  \* local recipientEmail
    dispatchCalls,   \* calls of sendNotificationEmail in this run
    sentTo,          \* address given to sendNotificationEmail
    emailSent,       \* local emailSent: "none" before its declaration, then "false" | "true"
    publisherCalls,  \* calls of DaprEventPublisher.publishEvent in this run
    providerState,   \* getMessagingProvider() in this run: "none" | "resolved" | "rejected"
    providerCalls,   \* calls of provider.publishEvent in this run
    outcome,         \* event given to DaprEventPublisher, or NoOutcome
    publishResult,   \* "none" | "true" | "false" | "throw"
    responses,       \* responses sent on the HTTP response object
    handlerResult,   \* "none" | "returned" | "threw" : the subscribe handler
    consumeError,    \* the consume callback threw before calling the handler
    acks,            \* channel.ack calls for the inflight delivery
    nacks            \* channel.nack(msg, false, true) calls for it

VARIABLES
    env,                        \* process.env.MESSAGING_PROVIDER
    messagingProviderInstance,  \* factory.ts singleton: 0 is null, else an instance
    instanceType,               \* provider type of every instance created so far
    typeReads,                  \* calls of getProviderType
    fpc,                        \* per caller of getMessagingProvider: "idle" | "creating" | "done"
    seen,                       \* per caller: the singleton as the call found it
    late,                       \* per caller: the call began after some call had resolved
    pendingType,                \* per caller: local providerType
    returned,                   \* per caller: value the call resolved to (0: none, -1: rejected)
    calls,                      \* calls of getMessagingProvider so far
    closePc,                    \* closeMessagingProvider: "idle" | "closing"
    closed,                     \* instances whose close() was called
    clears,                     \* closeMessagingProvider / resetMessagingProvider calls so far
    firstResolved               \* the first instance any call resolved to (0: none yet)

VARIABLES
    kind,              \* class of the provider instance
    connectionString,  \* ServiceBusMessagingProvider.connectionString is non-empty
    resources,         \* every connection, channel, client and sender created so far
    connection,        \* RabbitMQMessagingProvider.connection (0: null)
    channel,           \* RabbitMQMessagingProvider.channel (0: null)
    client,            \* DaprMessagingProvider.client / ServiceBusMessagingProvider.client (0: null)
    senders,           \* ServiceBusMessagingProvider.senders: topic -> sender (0: no entry)
    ppc,               \* per publishEvent call: "idle" | "lib" | "connect" | "createChannel" |
                       \*   "assertExchange" | "send" | "done"
    ptopic,            \* per call: argument topic
    phandle,           \* per call: local channel / sender / client
    pres,              \* per call: "none" | "true" | "false" | "throw"
    pfail,             \* per call: where it failed: "none" | "envelope" | "acquire" | "send"
    paccepted,         \* per call: the transport took the message
    publishes,         \* calls of publishEvent so far
    cpc,               \* close(): "idle" | "channel" | "connection" | "senders" | "client"
    closes,            \* calls of close() so far
    connErrors,        \* connection failures so far
    uncaught           \* an 'error' event found no listener

VARIABLES
    subPc,          \* RabbitMQMessagingProvider.subscribe: "idle" | "assertQueue" | "bindQueue" |
                    \*   "prefetch" | "consume" | "started" | "failed"
    boundCount,     \* topics of the for loop already bound to the queue
    prefetchCount,  \* the channel's prefetch limit (0: none set, unlimited)
    consumerOn,     \* channel.consume has registered the callback
    ready,          \* messages ready in the service queue
    unacked,        \* delivery tags delivered and not yet acked or nacked
    running,        \* delivery tags whose callback is between its start and its ack / nack
    nextTag,        \* next delivery tag of the channel
    channelGen,     \* channels getChannel has created so far
    channelOpen,    \* this.channel and this.connection are set (the newest channel)
    consumerGen     \* the channel channel.consume was called on (0: none)

channelVars == << channelGen, channelOpen, consumerGen >>

consumerVars ==
    << subPc, boundCount, prefetchCount, consumerOn, ready, unacked, running, nextTag,
       channelGen, channelOpen, consumerGen >>

VARIABLES
    startPc,         \* startConsumer: "idle" | "call" | "subscribe" | "ready"
    appProvider,     \* app.ts `messagingProvider` (0: null)
    isShuttingDown,  \* app.ts `isShuttingDown`
    appClosed,       \* instances whose close() gracefulShutdown has called
    exitCode         \* "none" while the process runs, else the code given to process.exit

appVars == << startPc, appProvider, isShuttingDown, appClosed, exitCode >>

VARIABLES
    nLeaf,   \* the logical payload
    nTopic,  \* the topic, second argument of processNotificationEvent
    nOut     \* per envelope shape: outcome of normalization, or NotRun

normVars == << nLeaf, nTopic, nOut >>

VARIABLES
    rEvent,      \* the normalized event given to renderNotification
    rTemplate,   \* the template
    rVariables,  \* local templateVariables (Undef before it is assigned)
    rOut         \* result of renderTemplate, or NotRendered

renderVars == << rEvent, rTemplate, rVariables, rOut >>

VARIABLES
    eConfigEnabled,      \* config.email.enabled
    eProviderConfigured, \* provider.isConfigured()
    eEnabled,            \* EmailService.enabled
    ePc,                 \* "new" | "idle" | "sending"
    eSendEmailCalls,     \* invocations of provider.sendEmail
    eOutcomes,           \* how each of them settled
    eResults             \* how each sendNotificationEmail call settled

emailVars ==
    << eConfigEnabled, eProviderConfigured, eEnabled, ePc, eSendEmailCalls,
       eOutcomes, eResults >>

VARIABLES
    tCatalog,    \* the array loadDefaultTemplates iterates
    tEventType,  \* argument of getTemplate
    tChannel,    \* argument of getTemplate
    tTemplates,  \* TemplateService.templates, or NotLoaded
    tResult      \* what getTemplate resolved to, or NotCalled

templateVars == << tCatalog, tEventType, tChannel, tTemplates, tResult >>

VARIABLES
    xEnvelope,   \* the inbound envelope, delivered once per run
    xPc,         \* "idle" | "extracted"
    xContext,    \* traceId, spanId and notificationId of the run in progress
    xMinted,     \* uuids handed out so far
    xRuns        \* finished runs: the context and the envelope published

traceVars == << xEnvelope, xPc, xContext, xMinted, xRuns >>

factoryVars ==
    << env, messagingProviderInstance, instanceType, typeReads, fpc, seen,
       late, pendingType, returned, calls, closePc, closed, clears,
       firstResolved >>

providerVars ==
    << kind, connectionString, resources, connection, channel, client, senders,
       ppc, ptopic, phandle, pres, pfail, paccepted, publishes, cpc, closes,
       connErrors, uncaught >>

auxVars ==
    << factoryVars, providerVars, consumerVars, appVars, normVars, renderVars,
       emailVars, templateVars, traceVars >>

pipelineVars ==
    << emailEnabled, queue, inflight, runs, caller, pc, cloudEvent, eventType,
       eventData, skipped, result, recipientEmail, dispatchCalls, sentTo,
       emailSent, publisherCalls, providerState, providerCalls, outcome, publishResult,
       responses, handlerResult, consumeError, acks, nacks >>

\* what the actions of one part of the program leave alone
outsideFactory ==
    << pipelineVars, providerVars, consumerVars, appVars, normVars,
       renderVars, emailVars, templateVars, traceVars >>

outsideProvider ==
    << pipelineVars, factoryVars, consumerVars, appVars, normVars,
       renderVars, emailVars, templateVars, traceVars >>

outsideConsumer ==
    << pipelineVars, factoryVars, providerVars, appVars, normVars,
       renderVars, emailVars, templateVars, traceVars >>

outsideApp ==
    << pipelineVars, providerVars, consumerVars, normVars, renderVars,
       emailVars, templateVars, traceVars >>

outsideNorm ==
    << pipelineVars, factoryVars, providerVars, consumerVars, appVars,
       renderVars, emailVars, templateVars, traceVars >>

outsideRender ==
    << pipelineVars, factoryVars, providerVars, consumerVars, appVars,
       normVars, emailVars, templateVars, traceVars >>

outsideEmail ==
    << pipelineVars, factoryVars, providerVars, consumerVars, appVars,
       normVars, renderVars, templateVars, traceVars >>

outsideTemplate ==
    << pipelineVars, factoryVars, providerVars, consumerVars, appVars,
       normVars, renderVars, emailVars, traceVars >>

outsideTrace ==
    << pipelineVars, factoryVars, providerVars, consumerVars, appVars,
       normVars, renderVars, emailVars, templateVars >>

vars == << pipelineVars, auxVars >>

\* the factory module right after it is loaded
FactoryIdle ==
    /\ messagingProviderInstance = 0
    /\ instanceType = << >>
    /\ typeReads = 0
    /\ fpc = [c \in Callers |-> "idle"]
    /\ seen = [c \in Callers |-> 0]
    /\ late = [c \in Callers |-> FALSE]
    /\ pendingType = [c \in Callers |-> "none"]
    /\ returned = [c \in Callers |-> 0]
    /\ calls = 0
    /\ closePc = "idle"
    /\ closed = {}
    /\ clears = 0
    /\ firstResolved = 0

\* a provider instance right after its constructor
ProviderIdle ==
    /\ resources = << >>
    /\ connection = 0
    /\ channel = 0
    /\ client = 0
    /\ senders = [t \in PublishTopics |-> 0]
    /\ ppc = [p \in Publishers |-> "idle"]
    /\ ptopic = [p \in Publishers |-> "notification.sent"]
    /\ phandle = [p \in Publishers |-> 0]
    /\ pres = [p \in Publishers |-> "none"]
    /\ pfail = [p \in Publishers |-> "none"]
    /\ paccepted = [p \in Publishers |-> FALSE]
    /\ publishes = 0
    /\ cpc = "idle"
    /\ closes = 0
    /\ connErrors = 0
    /\ uncaught = FALSE

\* the provider variables while another part of the program is explored
ProviderParked == kind = "dapr" /\ connectionString = TRUE /\ ProviderIdle

\* the factory variables while another part of the program is explored
FactoryParked == env = "" /\ FactoryIdle

\* the channel before subscribe is called
ConsumerIdle ==
    /\ subPc = "idle"
    /\ boundCount = 0
    /\ prefetchCount = 0
    /\ consumerOn = FALSE
    /\ ready = 0
    /\ unacked = {}
    /\ running = {}
    /\ nextTag = 1
    /\ channelGen = 0
    /\ channelOpen = FALSE
    /\ consumerGen = 0

\* app.ts right after the module is loaded
AppIdle ==
    /\ startPc = "idle"
    /\ appProvider = 0
    /\ isShuttingDown = FALSE
    /\ appClosed = {}
    /\ exitCode = "none"

\* no normalization under study
NormParked ==
    /\ nLeaf = EmptyObj
    /\ nTopic = EmptyString
    /\ nOut = [sh \in Shapes |-> NotRun]

\* no rendering under study
RenderParked ==
    /\ rEvent = Undef
    /\ rTemplate = [subject |-> << >>, message_template |-> << >>]
    /\ rVariables = Undef
    /\ rOut = NotRendered

\* no EmailService under study
EmailParked ==
    /\ eConfigEnabled = FALSE
    /\ eProviderConfigured = FALSE
    /\ eEnabled = FALSE
    /\ ePc = "new"
    /\ eSendEmailCalls = 0
    /\ eOutcomes = << >>
    /\ eResults = << >>

\* no TemplateService under study
TemplateParked ==
    /\ tCatalog = << >>
    /\ tEventType = Undef
    /\ tChannel = "email"
    /\ tTemplates = NotLoaded
    /\ tResult = NotCalled

\* no trace context under study
TraceParked ==
    /\ xEnvelope = Undef
    /\ xPc = "idle"
    /\ xContext = NoContext
    /\ xMinted = 0
    /\ xRuns = << >>

runVars ==
    << eventData, skipped, result, recipientEmail, dispatchCalls, sentTo,
       emailSent, publisherCalls, providerState, providerCalls, outcome, publishResult >>

\* no event taken yet
PipelineIdle ==
    /\ queue = << >>
    /\ inflight = NoMsg
    /\ runs = 0
    /\ caller = "none"
    /\ pc = "idle"
    /\ cloudEvent = Undef
    /\ eventType = EmptyString
    /\ eventData = Undef
    /\ skipped = FALSE
    /\ result = "none"
    /\ recipientEmail = Undef
    /\ dispatchCalls = 0
    /\ sentTo = Undef
    /\ emailSent = "none"
    /\ publisherCalls = 0
    /\ providerState = "none"
    /\ providerCalls = 0
    /\ outcome = NoOutcome
    /\ publishResult = "none"
    /\ responses = << >>
    /\ handlerResult = "none"
    /\ consumeError = FALSE
    /\ acks = 0
    /\ nacks = 0

Init ==
    /\ emailEnabled \in BOOLEAN
    /\ PipelineIdle
    /\ FactoryParked
    /\ ProviderParked
    /\ ConsumerIdle
    /\ AppIdle
    /\ NormParked
    /\ RenderParked
    /\ EmailParked
    /\ TemplateParked
    /\ TraceParked

\* a fresh invocation: every local of the previous one is gone
FreshRun ==
    /\ runs' = runs + 1
    /\ eventData' = Undef
    /\ skipped' = FALSE
    /\ result' = "none"
    /\ recipientEmail' = Undef
    /\ dispatchCalls' = 0
    /\ sentTo' = Undef
    /\ emailSent' = "none"
    /\ publisherCalls' = 0
    /\ providerState' = "none"
    /\ providerCalls' = 0
    /\ outcome' = NoOutcome
    /\ publishResult' = "none"
    /\ responses' = << >>
    /\ acks' = 0
    /\ nacks' = 0

Ready == pc \in {"idle", "done"} /\ runs < MaxRuns

(***************************************************************************)
(* Entry points.                                                           *)
(***************************************************************************)
\* notificationService.processNotificationEvent(ce, et) called directly
DirectCall(ce, et) ==
    /\ Ready
    /\ FreshRun
    /\ caller' = "direct"
    /\ cloudEvent' = ce
    /\ eventType' = et
    /\ pc' = "normalize"
    /\ handlerResult' = "none"
    /\ consumeError' = FALSE
    /\ UNCHANGED << emailEnabled, queue, inflight >>
    /\ UNCHANGED auxVars

\* POST /events/<topic> : the handler handleEvent(eventType) of the route
HttpRequest(body, topic) ==
    /\ Ready
    /\ FreshRun
    /\ caller' = "http"
    /\ cloudEvent' = body
    /\ eventType' = ControllerExports[EventRoutes[topic]]
    /\ pc' = "normalize"
    /\ handlerResult' = "none"
    /\ consumeError' = FALSE
    /\ UNCHANGED << emailEnabled, queue, inflight >>
    /\ UNCHANGED auxVars

\* a producer's message is routed to the service queue
Produce(m) ==
    /\ Len(queue) < MaxQueue
    /\ runs < MaxRuns
    /\ queue' = Append(queue, m)
    /\ UNCHANGED << emailEnabled, inflight, runs, caller, pc, cloudEvent,
                    eventType, responses, handlerResult, consumeError,
                    acks, nacks >>
    /\ UNCHANGED runVars
    /\ UNCHANGED auxVars

\* consume callback: parse, set type from the routing key, call the handler
\* (routeEventToHandler), which runs synchronously up to the first await of
\* processNotificationEvent
BrokerDeliver ==
    /\ Ready
    /\ queue # << >>
    /\ inflight = NoMsg
    /\ FreshRun
    /\ inflight' = Head(queue)
    /\ queue' = Tail(queue)
    /\ caller' = "broker"
    /\ LET msg == Head(queue)
           parsed == JsonParse(msg.content)
           event == ConsumedEvent(parsed, msg.routingKey)
           route == RouteEvent(Get(event, "type").s)
       IN  IF parsed.t # "obj"
           THEN \* JSON.parse threw, or eventData.type = ... on a non-object did
                /\ consumeError' = TRUE
                /\ handlerResult' = "none"
                /\ pc' = "settle"
                /\ UNCHANGED << cloudEvent, eventType >>
           ELSE /\ consumeError' = FALSE
                /\ cloudEvent' = event
                /\ eventType' = route.eventType
                /\ handlerResult' =
                       CASE route.kind = "unrouted" -> "returned"
                         [] route.kind = "missing" -> "threw"
                         [] route.kind = "handler" -> "none"
                /\ pc' = IF route.kind = "handler" THEN "normalize" ELSE "settle"
    /\ UNCHANGED emailEnabled
    /\ UNCHANGED auxVars

(***************************************************************************)
(* processNotificationEvent.                                               *)
(***************************************************************************)
\* from the first line to the validation of eventData.eventType
Normalize ==
    /\ pc = "normalize"
    /\ LET n == NormalizeEvent(cloudEvent, eventType) IN
       /\ cloudEvent' = n.cloudEvent
       /\ eventData' = n.eventData
       /\ skipped' = (n.status = "skipped")
       /\ result' = CASE n.status = "threw" -> ProcessCatch
                      [] n.status = "skipped" -> "returned"
                      [] n.status = "ok" -> "none"
       /\ pc' = IF n.status = "ok" THEN "render" ELSE "return"
    /\ UNCHANGED << emailEnabled, queue, inflight, runs, caller, eventType,
                    recipientEmail, dispatchCalls, sentTo, emailSent,
                    publisherCalls, providerState, providerCalls, outcome, publishResult,
                    responses, handlerResult, consumeError, acks, nacks >>
    /\ UNCHANGED auxVars

\* await this.renderNotification(eventData, 'email')
Render ==
    /\ pc = "render"
    /\ IF RenderThrows(eventData)
       THEN /\ result' = ProcessCatch
            /\ pc' = "return"
       ELSE /\ result' = result
            /\ pc' = "dispatch"
    /\ UNCHANGED << emailEnabled, queue, inflight, runs, caller, cloudEvent,
                    eventType, eventData, skipped, recipientEmail,
                    dispatchCalls, sentTo, emailSent, publisherCalls,
                    providerState, providerCalls, outcome, publishResult, responses,
                    handlerResult, consumeError, acks, nacks >>
    /\ UNCHANGED auxVars

\* mutation: the else branch of the send guard publishes nothing
Dispatch_NoOutcomeWhenNotSent ==
    /\ pc = "dispatch"
    /\ recipientEmail' = RecipientEmail(eventData)
    /\ emailSent' = "false"
    /\ IF ShouldDispatch(RecipientEmail(eventData), emailEnabled)
       THEN /\ dispatchCalls' = dispatchCalls + 1
            /\ sentTo' = RecipientEmail(eventData)
            /\ pc' = "sending"
            /\ UNCHANGED result
       ELSE /\ UNCHANGED << dispatchCalls, sentTo >>
            /\ result' = "returned"
            /\ pc' = "return"
    /\ UNCHANGED << emailEnabled, queue, inflight, runs, caller, cloudEvent,
                    eventType, eventData, skipped, publisherCalls,
                    providerState, providerCalls, outcome, publishResult,
                    responses, handlerResult, consumeError, acks, nacks >>
    /\ UNCHANGED auxVars

\* let emailSent = false; recipientEmail = ...; the if that guards the send
Dispatch ==
    /\ pc = "dispatch"
    /\ recipientEmail' = RecipientEmail(eventData)
    /\ emailSent' = "false"
    /\ IF ShouldDispatch(RecipientEmail(eventData), emailEnabled)
       THEN /\ dispatchCalls' = dispatchCalls + 1
            /\ sentTo' = RecipientEmail(eventData)
            /\ pc' = "sending"
       ELSE /\ UNCHANGED << dispatchCalls, sentTo >>
            /\ pc' = "publish"
    /\ UNCHANGED << emailEnabled, queue, inflight, runs, caller, cloudEvent,
                    eventType, eventData, skipped, result, publisherCalls,
                    providerState, providerCalls, outcome, publishResult, responses,
                    handlerResult, consumeError, acks, nacks >>
    /\ UNCHANGED auxVars

\* the awaited sendNotificationEmail settles
SendDone(providerOutcome) ==
    /\ pc = "sending"
    /\ LET r == SendNotificationEmail(emailEnabled, providerOutcome) IN
       /\ emailSent' = IF r = "true" THEN "true" ELSE "false"
       /\ result' = IF r = "throw" THEN ProcessCatch ELSE result
       /\ pc' = IF r = "throw" THEN "return" ELSE "publish"
    /\ UNCHANGED << emailEnabled, queue, inflight, runs, caller, cloudEvent,
                    eventType, eventData, skipped, recipientEmail,
                    dispatchCalls, sentTo, publisherCalls, providerState, providerCalls,
                    outcome, publishResult, responses, handlerResult,
                    consumeError, acks, nacks >>
    /\ UNCHANGED auxVars

\* daprPublisher.publishNotificationSent / publishNotificationFailed is called
\* and suspends at await getMessagingProvider()
PublishStart ==
    /\ pc = "publish"
    /\ outcome' = OutcomeEvent(eventData, recipientEmail,
                               dispatchCalls > 0, emailSent = "true")
    /\ publisherCalls' = publisherCalls + 1
    /\ pc' = "publishing"
    /\ UNCHANGED << emailEnabled, queue, inflight, runs, caller, cloudEvent,
                    eventType, eventData, skipped, result, recipientEmail,
                    dispatchCalls, sentTo, emailSent, providerState, providerCalls,
                    publishResult, responses, handlerResult, consumeError,
                    acks, nacks >>
    /\ UNCHANGED auxVars

\* how publishEvent's result reaches processNotificationEvent
AfterPublish(r) ==
    /\ publishResult' = r
    /\ result' = IF r = "throw" THEN ProcessCatch ELSE "returned"
    /\ pc' = "return"

\* getMessagingProvider() resolved; provider.publishEvent is called and settles
ProviderPublish(providerOutcome) ==
    /\ pc = "publishing"
    /\ providerState' = "resolved"
    /\ providerCalls' = providerCalls + 1
    /\ AfterPublish(PublishEvent(TRUE, providerOutcome))
    /\ UNCHANGED << emailEnabled, queue, inflight, runs, caller, cloudEvent,
                    eventType, eventData, skipped, recipientEmail,
                    dispatchCalls, sentTo, emailSent, publisherCalls, outcome,
                    responses, handlerResult, consumeError, acks, nacks >>
    /\ UNCHANGED auxVars

\* getMessagingProvider() rejected
ProviderUnavailable ==
    /\ pc = "publishing"
    /\ providerState' = "rejected"
    /\ AfterPublish(PublishEvent(FALSE, "throw"))
    /\ UNCHANGED << emailEnabled, queue, inflight, runs, caller, cloudEvent,
                    eventType, eventData, skipped, recipientEmail,
                    dispatchCalls, sentTo, emailSent, publisherCalls,
                    providerCalls, outcome, responses, handlerResult,
                    consumeError, acks, nacks >>
    /\ UNCHANGED auxVars

(***************************************************************************)
(* Back in the callers.                                                    *)
(***************************************************************************)
\* a direct caller gets the promise's result
Return ==
    /\ pc = "return"
    /\ caller = "direct"
    /\ pc' = "done"
    /\ UNCHANGED << emailEnabled, queue, inflight, runs, caller, cloudEvent,
                    eventType, responses, handlerResult, consumeError,
                    acks, nacks >>
    /\ UNCHANGED runVars
    /\ UNCHANGED auxVars

\* handleEvent after await processNotificationEvent: respond 200 or 500.
\* On the broker path res is the mock of createMockResponse, which drops the
\* response, and the handler's promise settles routeEventToHandler.
HandleEventRespond ==
    /\ pc = "return"
    /\ caller \in {"http", "broker"}
    /\ IF caller = "http"
       THEN /\ responses' = Append(responses, HandleEventResponse(result))
            /\ pc' = "done"
            /\ UNCHANGED handlerResult
       ELSE /\ responses' = responses
            /\ handlerResult' = HandleEventSettles(result)
            /\ pc' = "settle"
    /\ UNCHANGED << emailEnabled, queue, inflight, runs, caller, cloudEvent,
                    eventType, consumeError, acks, nacks >>
    /\ UNCHANGED runVars
    /\ UNCHANGED auxVars

\* consume callback after await handler(eventData): channel.ack(msg), or in
\* the catch channel.nack(msg, false, true), which puts the message back
BrokerSettle ==
    /\ pc = "settle"
    /\ LET tryResult == IF consumeError THEN "threw" ELSE handlerResult IN
       IF ConsumeSettle(tryResult) = "ack"
       THEN /\ acks' = acks + 1
            /\ UNCHANGED << nacks, queue >>
       ELSE /\ nacks' = nacks + 1
            /\ queue' = << inflight >> \o queue
            /\ UNCHANGED acks
    /\ inflight' = NoMsg
    /\ pc' = "done"
    /\ UNCHANGED << emailEnabled, runs, caller, cloudEvent, eventType,
                    responses, handlerResult, consumeError >>
    /\ UNCHANGED runVars
    /\ UNCHANGED auxVars

Next ==
    \/ \E ce \in Bodies, et \in EventTypeArgs : DirectCall(ce, et)
    \/ \E body \in Bodies, topic \in HttpTopics : HttpRequest(body, topic)
    \/ \E m \in Messages : Produce(m)
    \/ BrokerDeliver
    \/ Normalize
    \/ Render
    \/ Dispatch
    \/ \E o \in ProviderSendOutcomes : SendDone(o)
    \/ PublishStart
    \/ \E o \in ProviderPublishOutcomes : ProviderPublish(o)
    \/ ProviderUnavailable
    \/ Return
    \/ HandleEventRespond
    \/ BrokerSettle

Spec == Init /\ [][Next]_vars

TypeOK ==
    /\ emailEnabled \in BOOLEAN
    /\ runs \in 0..MaxRuns
    /\ caller \in {"none", "direct", "http", "broker"}
    /\ pc \in {"idle", "normalize", "render", "dispatch", "sending", "publish",
               "publishing", "return", "settle", "done"}
    /\ result \in {"none", "returned", "threw"}
    /\ emailSent \in {"none", "false", "true"}
    /\ providerState \in {"none", "resolved", "rejected"}
    /\ handlerResult \in {"none", "returned", "threw"}
    /\ publishResult \in {"none", "true", "false", "throw"}
    /\ skipped \in BOOLEAN
    /\ consumeError \in BOOLEAN

(***************************************************************************)
(* messaging/factory.ts: the process-wide provider singleton.  Callers     *)
(* are the places that await getMessagingProvider(): startConsumer and     *)
(* every DaprEventPublisher.publishEvent.                                  *)
(***************************************************************************)
\* String.prototype.toLowerCase on the values of Envs
ToLowerCase(str) == IF str = "RabbitMQ" THEN "rabbitmq" ELSE str

\* getProviderType
GetProviderType(e) ==
    LET provider == ToLowerCase(IF e = "" THEN "dapr" ELSE e) IN
    IF provider \notin {"dapr", "rabbitmq", "servicebus"} THEN "dapr" ELSE provider

\* the test `if (!messagingProviderInstance)` of getMessagingProvider
MustCreate_Always(instance) == TRUE

MustCreate(instance) == instance = 0

\* a call's resolution, recorded once for the first call that resolves
NoteResolved(inst) ==
    firstResolved' = IF firstResolved = 0 THEN inst ELSE firstResolved

\* getMessagingProvider up to its first suspension: either the singleton is
\* set and is returned, or the type is read and createProvider is awaited
GetMessagingProvider(c) ==
    /\ fpc[c] \in {"idle", "done"}
    /\ calls < MaxCalls
    /\ calls' = calls + 1
    /\ seen' = [seen EXCEPT ![c] = messagingProviderInstance]
    /\ late' = [late EXCEPT ![c] = firstResolved # 0]
    /\ IF MustCreate(messagingProviderInstance)
       THEN /\ typeReads' = typeReads + 1
            /\ pendingType' = [pendingType EXCEPT ![c] = GetProviderType(env)]
            /\ fpc' = [fpc EXCEPT ![c] = "creating"]
            /\ returned' = [returned EXCEPT ![c] = 0]
            /\ UNCHANGED firstResolved
       ELSE /\ returned' = [returned EXCEPT ![c] = messagingProviderInstance]
            /\ fpc' = [fpc EXCEPT ![c] = "done"]
            /\ NoteResolved(messagingProviderInstance)
            /\ UNCHANGED << typeReads, pendingType >>
    /\ UNCHANGED << env, messagingProviderInstance, instanceType, closePc, closed, clears >>
    /\ UNCHANGED outsideFactory

\* createProvider resolved: `new XMessagingProvider()` is assigned to the
\* singleton and returned
CreateProviderDone(c) ==
    /\ fpc[c] = "creating"
    /\ LET inst == Len(instanceType) + 1 IN
          /\ instanceType' = Append(instanceType, pendingType[c])
          /\ messagingProviderInstance' = inst
          /\ returned' = [returned EXCEPT ![c] = inst]
          /\ NoteResolved(inst)
    /\ fpc' = [fpc EXCEPT ![c] = "done"]
    /\ UNCHANGED << env, typeReads, seen, late, pendingType, calls, closePc, closed, clears >>
    /\ UNCHANGED outsideFactory

\* the dynamic import of createProvider rejected: the call rejects
CreateProviderFails(c) ==
    /\ fpc[c] = "creating"
    /\ returned' = [returned EXCEPT ![c] = -1]
    /\ fpc' = [fpc EXCEPT ![c] = "done"]
    /\ UNCHANGED << env, messagingProviderInstance, instanceType, typeReads,
                    seen, late, pendingType, calls, closePc, closed, clears, firstResolved >>
    /\ UNCHANGED outsideFactory

\* closeMessagingProvider up to `await messagingProviderInstance.close()`
CloseMessagingProvider ==
    /\ closePc = "idle"
    /\ clears < MaxClears
    /\ clears' = clears + 1
    /\ closePc' = IF messagingProviderInstance # 0 THEN "closing" ELSE "idle"
    /\ closed' = IF messagingProviderInstance # 0
                 THEN closed \cup {messagingProviderInstance}
                 ELSE closed
    /\ UNCHANGED << env, messagingProviderInstance, instanceType, typeReads,
                    fpc, seen, late, pendingType, returned, calls, firstResolved >>
    /\ UNCHANGED outsideFactory

\* closeMessagingProvider after the await: the singleton is cleared
CloseDone ==
    /\ closePc = "closing"
    /\ messagingProviderInstance' = 0
    /\ closePc' = "idle"
    /\ UNCHANGED << env, instanceType, typeReads, fpc, seen, late, pendingType,
                    returned, calls, closed, clears, firstResolved >>
    /\ UNCHANGED outsideFactory

\* resetMessagingProvider
ResetMessagingProvider ==
    /\ clears < MaxClears
    /\ clears' = clears + 1
    /\ messagingProviderInstance' = 0
    /\ UNCHANGED << env, instanceType, typeReads, fpc, seen, late, pendingType,
                    returned, calls, closePc, closed, firstResolved >>
    /\ UNCHANGED outsideFactory

FactoryInit ==
    /\ env \in Envs
    /\ FactoryIdle
    /\ emailEnabled = FALSE
    /\ PipelineIdle
    /\ ProviderParked
    /\ ConsumerIdle
    /\ AppIdle
    /\ NormParked
    /\ RenderParked
    /\ EmailParked
    /\ TemplateParked
    /\ TraceParked

FactoryNext ==
    \/ \E c \in Callers : GetMessagingProvider(c)
    \/ \E c \in Callers : CreateProviderDone(c)
    \/ \E c \in Callers : CreateProviderFails(c)
    \/ CloseMessagingProvider
    \/ CloseDone
    \/ ResetMessagingProvider

FactorySpec == FactoryInit /\ [][FactoryNext]_vars

(***************************************************************************)
(* The three MessagingProvider implementations: publishEvent and close of  *)
(* one provider instance, with every await a step boundary.                *)
(***************************************************************************)
providerConfig == << kind, connectionString >>

providerFields == << resources, connection, channel, client, senders >>

callVars == << ppc, ptopic, phandle, pres, pfail, paccepted, publishes >>

closeVars == << cpc, closes >>

eventVars == << connErrors, uncaught >>

\* a connection, channel, client or sender handed out by an SDK
NewResource(k, t) ==
    [kind |-> k, topic |-> t, open |-> TRUE, parent |-> 0, listening |-> FALSE,
     failed |-> FALSE]

IsOpen(h) == h \in 1..Len(resources) /\ resources[h].open

\* the catch block of publishEvent
PublishCatch_Rethrows == "throw"

PublishCatch == "false"

\* the locals and the result of call p
Call(p, at, h, res, fail, acc) ==
    /\ ppc' = [ppc EXCEPT ![p] = at]
    /\ phandle' = [phandle EXCEPT ![p] = h]
    /\ pres' = [pres EXCEPT ![p] = res]
    /\ pfail' = [pfail EXCEPT ![p] = fail]
    /\ paccepted' = [paccepted EXCEPT ![p] = acc]

\* an exception inside the try of publishEvent
Fail(p, stage) == Call(p, "done", phandle[p], PublishCatch, stage, FALSE)

\* publishEvent suspends at an await
Goto(p, at, h) == Call(p, at, h, "none", "none", FALSE)

\* publishEvent from its first statement to its first await.
\*   envelopeOk : buildCloudEvent returned
\*   clientOk   : `new DaprClient(...)` returned
PublishEventCall(p, topic, envelopeOk, clientOk) ==
    /\ ppc[p] \in {"idle", "done"}
    /\ publishes < MaxPublishes
    /\ publishes' = publishes + 1
    /\ ptopic' = [ptopic EXCEPT ![p] = topic]
    /\ IF ~envelopeOk
       THEN Fail(p, "envelope") /\ UNCHANGED providerFields
       ELSE CASE kind = "dapr" ->
                   IF client # 0
                   THEN Goto(p, "send", client) /\ UNCHANGED providerFields
                   ELSE IF clientOk
                        THEN /\ resources' = Append(resources, NewResource("client", ""))
                             /\ client' = Len(resources) + 1
                             /\ Goto(p, "send", Len(resources) + 1)
                             /\ UNCHANGED << connection, channel, senders >>
                        ELSE Fail(p, "acquire") /\ UNCHANGED providerFields
              [] kind = "rabbitmq" ->
                   /\ IF channel = 0 \/ connection = 0
                      THEN Goto(p, "connect", 0)
                      ELSE Goto(p, "send", channel)
                   /\ UNCHANGED providerFields
              [] kind = "servicebus" ->
                   /\ IF senders[topic] # 0
                      THEN Goto(p, "send", senders[topic])
                      ELSE IF client # 0
                           THEN Goto(p, "createSender", client)
                           ELSE IF connectionString
                                THEN Goto(p, "lib", 0)
                                ELSE Fail(p, "acquire")
                   /\ UNCHANGED providerFields
    /\ UNCHANGED << providerConfig, closeVars >>
    /\ UNCHANGED eventVars
    /\ UNCHANGED outsideProvider

\* RabbitMQ getChannel: await getAmqpLib() and await amqp.connect(url)
Connected(p, ok) ==
    /\ kind = "rabbitmq" /\ ppc[p] = "connect"
    /\ IF ok
       THEN /\ resources' = Append(resources, NewResource("connection", ""))
            /\ connection' = Len(resources) + 1
            /\ Goto(p, "createChannel", Len(resources) + 1)
            /\ UNCHANGED << channel, client, senders >>
       ELSE Fail(p, "acquire") /\ UNCHANGED providerFields
    /\ UNCHANGED << providerConfig, closeVars, ptopic, publishes >>
    /\ UNCHANGED eventVars
    /\ UNCHANGED outsideProvider

\* RabbitMQ getChannel: await this.connection.createChannel()
ChannelCreated(p, ok) ==
    /\ kind = "rabbitmq" /\ ppc[p] = "createChannel"
    /\ IF ok /\ IsOpen(phandle[p])
       THEN /\ resources' = Append(resources,
                    [NewResource("channel", "") EXCEPT !.parent = phandle[p]])
            /\ channel' = Len(resources) + 1
            /\ Goto(p, "assertExchange", Len(resources) + 1)
            /\ UNCHANGED << connection, client, senders >>
       ELSE Fail(p, "acquire") /\ UNCHANGED providerFields
    /\ UNCHANGED << providerConfig, closeVars, ptopic, publishes >>
    /\ UNCHANGED eventVars
    /\ UNCHANGED outsideProvider

\* RabbitMQ getChannel: await this.channel.assertExchange(...), then
\* this.connection.on('close', ...), this.connection.on('error', ...) and
\* `return this.channel`, each reading the field as it is by then
ExchangeAsserted(p, ok) ==
    /\ kind = "rabbitmq" /\ ppc[p] = "assertExchange"
    /\ IF ok /\ IsOpen(phandle[p]) /\ connection # 0
       THEN /\ resources' = [resources EXCEPT ![connection].listening = TRUE]
            /\ Goto(p, "send", channel)
       ELSE Fail(p, "acquire") /\ UNCHANGED resources
    /\ UNCHANGED << connection, channel, client, senders >>
    /\ UNCHANGED << providerConfig, closeVars, ptopic, publishes >>
    /\ UNCHANGED eventVars
    /\ UNCHANGED outsideProvider

\* Service Bus getClient: await getServiceBusModule(), then
\* `this.client = new ServiceBusClient(...)`
ModuleLoaded(p, ok) ==
    /\ kind = "servicebus" /\ ppc[p] = "lib"
    /\ IF ok
       THEN /\ resources' = Append(resources, NewResource("client", ""))
            /\ client' = Len(resources) + 1
            /\ Goto(p, "createSender", Len(resources) + 1)
            /\ UNCHANGED << connection, channel, senders >>
       ELSE Fail(p, "acquire") /\ UNCHANGED providerFields
    /\ UNCHANGED << providerConfig, closeVars, ptopic, publishes >>
    /\ UNCHANGED eventVars
    /\ UNCHANGED outsideProvider

\* Service Bus getSender after `await this.getClient()`:
\* client.createSender(topic), senders.set(topic, sender)
SenderCreated(p) ==
    /\ kind = "servicebus" /\ ppc[p] = "createSender"
    /\ IF IsOpen(phandle[p])
       THEN /\ resources' = Append(resources, NewResource("sender", ptopic[p]))
            /\ senders' = [senders EXCEPT ![ptopic[p]] = Len(resources) + 1]
            /\ Goto(p, "send", Len(resources) + 1)
            /\ UNCHANGED << connection, channel, client >>
       ELSE Fail(p, "acquire") /\ UNCHANGED providerFields
    /\ UNCHANGED << providerConfig, closeVars, ptopic, publishes >>
    /\ UNCHANGED eventVars
    /\ UNCHANGED outsideProvider

\* what the transport call can do
SendOutcomes == {"ok", "full", "reject"}

\* the transport call and the rest of publishEvent:
\*   dapr       await client.pubsub.publish(...)
\*   rabbitmq   channel.publish(...), whose boolean is returned
\*   servicebus await sender.sendMessages(...)
Sent(p, o) ==
    /\ ppc[p] = "send"
    /\ o = "full" => kind = "rabbitmq"
    /\ IF ~IsOpen(phandle[p]) \/ o = "reject"
       THEN Fail(p, "send")
       ELSE Call(p, "done", phandle[p],
                 IF o = "ok" THEN "true" ELSE "false", "none", TRUE)
    /\ UNCHANGED << providerFields, providerConfig, closeVars, ptopic, publishes >>
    /\ UNCHANGED eventVars
    /\ UNCHANGED outsideProvider

CloseResource(h) == resources' = [resources EXCEPT ![h].open = FALSE]

\* Service Bus senders that close() still has to visit
OpenSenders == {t \in PublishTopics : senders[t] # 0 /\ IsOpen(senders[t])}

\* mutation: close() does not test the handle before closing it
Held_Always(h) == TRUE

\* `if (this.channel)`, `if (this.connection)`, `if (this.client)` in close()
Held(h) == h # 0

\* close() from its first statement to its first await
CloseCall ==
    /\ cpc = "idle"
    /\ closes < MaxCloses
    /\ closes' = closes + 1
    /\ CASE kind = "dapr" ->
              /\ client' = 0
              /\ cpc' = "idle"
              /\ UNCHANGED << resources, connection, channel, senders >>
         [] kind = "rabbitmq" ->
              /\ cpc' = IF Held(channel) THEN "channel"
                        ELSE IF Held(connection) THEN "connection" ELSE "idle"
              /\ UNCHANGED providerFields
         [] kind = "servicebus" ->
              IF OpenSenders # {}
              THEN cpc' = "senders" /\ UNCHANGED providerFields
              ELSE /\ senders' = [t \in PublishTopics |-> 0]
                   /\ cpc' = IF Held(client) THEN "client" ELSE "idle"
                   /\ UNCHANGED << resources, connection, channel, client >>
    /\ UNCHANGED << providerConfig, callVars >>
    /\ UNCHANGED eventVars
    /\ UNCHANGED outsideProvider

\* RabbitMQ close: await this.channel.close()
ChannelClosed(ok) ==
    /\ cpc = "channel"
    /\ IF ok
       THEN /\ IF IsOpen(channel) THEN CloseResource(channel) ELSE UNCHANGED resources
            /\ channel' = 0
            /\ cpc' = IF connection # 0 THEN "connection" ELSE "idle"
       ELSE cpc' = "idle" /\ UNCHANGED << resources, channel >>
    /\ UNCHANGED << connection, client, senders, providerConfig, callVars, closes >>
    /\ UNCHANGED eventVars
    /\ UNCHANGED outsideProvider

\* RabbitMQ close: await this.connection.close()
ConnectionClosed(ok) ==
    /\ cpc = "connection"
    /\ IF ok
       THEN /\ IF IsOpen(connection) THEN CloseResource(connection) ELSE UNCHANGED resources
            /\ connection' = 0
       ELSE UNCHANGED << resources, connection >>
    /\ cpc' = "idle"
    /\ UNCHANGED << channel, client, senders, providerConfig, callVars, closes >>
    /\ UNCHANGED eventVars
    /\ UNCHANGED outsideProvider

\* Service Bus close: await sender.close() for one entry of the map; after
\* the last one senders.clear() and the test of this.client
SenderClosed(t, ok) ==
    /\ cpc = "senders"
    /\ t \in OpenSenders
    /\ IF ok
       THEN /\ CloseResource(senders[t])
            /\ IF OpenSenders = {t}
               THEN /\ senders' = [u \in PublishTopics |-> 0]
                    /\ cpc' = IF client # 0 THEN "client" ELSE "idle"
               ELSE UNCHANGED << senders, cpc >>
       ELSE cpc' = "idle" /\ UNCHANGED << resources, senders >>
    /\ UNCHANGED << connection, channel, client, providerConfig, callVars, closes >>
    /\ UNCHANGED eventVars
    /\ UNCHANGED outsideProvider

\* Service Bus close: await this.client.close()
ClientClosed(ok) ==
    /\ cpc = "client"
    /\ IF ok
       THEN /\ IF IsOpen(client) THEN CloseResource(client) ELSE UNCHANGED resources
            /\ client' = 0
       ELSE UNCHANGED << resources, client >>
    /\ cpc' = "idle"
    /\ UNCHANGED << connection, channel, senders, providerConfig, callVars, closes >>
    /\ UNCHANGED eventVars
    /\ UNCHANGED outsideProvider

\* the broker connection h fails: amqplib emits 'error' and then 'close' on
\* it and its channels are dead. With the handlers of getChannel registered
\* on h, the first logs and the second clears both fields; with no 'error'
\* listener the emit throws, which reaches process.on('uncaughtException')
\* and gracefulShutdown.
ConnectionError ==
    \E h \in 1..Len(resources) :
        /\ kind = "rabbitmq"
        /\ connErrors < MaxErrors
        /\ resources[h].kind = "connection" /\ resources[h].open
        /\ connErrors' = connErrors + 1
        /\ resources' = [i \in 1..Len(resources) |->
                            IF i = h
                            THEN [resources[i] EXCEPT !.open = FALSE, !.failed = TRUE]
                            ELSE IF resources[i].parent = h
                            THEN [resources[i] EXCEPT !.open = FALSE]
                            ELSE resources[i]]
        /\ IF resources[h].listening
           THEN connection' = 0 /\ channel' = 0 /\ UNCHANGED uncaught
           ELSE uncaught' = TRUE /\ UNCHANGED << connection, channel >>
        /\ UNCHANGED << client, senders, providerConfig, callVars, closeVars >>
        /\ UNCHANGED outsideProvider

ProviderInit ==
    /\ kind \in ProviderKinds
    /\ connectionString \in (IF kind = "servicebus" THEN BOOLEAN ELSE {TRUE})
    /\ ProviderIdle
    /\ emailEnabled = FALSE
    /\ PipelineIdle
    /\ FactoryParked
    /\ ConsumerIdle
    /\ AppIdle
    /\ NormParked
    /\ RenderParked
    /\ EmailParked
    /\ TemplateParked
    /\ TraceParked

ProviderNext ==
    \/ \E p \in Publishers, topic \in PublishTopics, envelopeOk, clientOk \in BOOLEAN :
          PublishEventCall(p, topic, envelopeOk, clientOk)
    \/ \E p \in Publishers, ok \in BOOLEAN : Connected(p, ok)
    \/ \E p \in Publishers, ok \in BOOLEAN : ChannelCreated(p, ok)
    \/ \E p \in Publishers, ok \in BOOLEAN : ExchangeAsserted(p, ok)
    \/ \E p \in Publishers, ok \in BOOLEAN : ModuleLoaded(p, ok)
    \/ \E p \in Publishers : SenderCreated(p)
    \/ \E p \in Publishers, o \in SendOutcomes : Sent(p, o)
    \/ CloseCall
    \/ \E ok \in BOOLEAN : ChannelClosed(ok)
    \/ \E ok \in BOOLEAN : ConnectionClosed(ok)
    \/ \E t \in PublishTopics, ok \in BOOLEAN : SenderClosed(t, ok)
    \/ \E ok \in BOOLEAN : ClientClosed(ok)
    \/ ConnectionError
    \/ CloseMessagingProvider

ProviderSpec == ProviderInit /\ [][ProviderNext]_vars

(***************************************************************************)
(* RabbitMQMessagingProvider.subscribe and the deliveries the broker makes *)
(* to its consume callback.                                                *)
(***************************************************************************)
\* getSubscriptionTopics
SubscriptionTopics == DOMAIN TOPIC_HANDLERS

\* the argument of channel.prefetch in subscribe
PrefetchCount_Unlimited == 0

PrefetchCount == 1

\* the catch of subscribe: log and rethrow
SubscribeFails ==
    /\ subPc' = "failed"
    /\ UNCHANGED << boundCount, prefetchCount, consumerOn >>

\* subscribe: await this.getChannel()
SubscribeCall(ok) ==
    /\ subPc = "idle"
    /\ IF ok
       THEN /\ subPc' = "assertQueue"
            /\ channelGen' = IF channelOpen THEN channelGen ELSE channelGen + 1
            /\ channelOpen' = TRUE
            /\ UNCHANGED << boundCount, prefetchCount, consumerOn, consumerGen >>
       ELSE SubscribeFails /\ UNCHANGED channelVars
    /\ UNCHANGED << ready, unacked, running, nextTag >>
    /\ UNCHANGED outsideConsumer

\* subscribe: await channel.assertQueue(queueName, ...)
QueueAsserted(ok) ==
    /\ subPc = "assertQueue"
    /\ ok => channelOpen
    /\ UNCHANGED channelVars
    /\ IF ok
       THEN subPc' = "bindQueue" /\ UNCHANGED << boundCount, prefetchCount, consumerOn >>
       ELSE SubscribeFails
    /\ UNCHANGED << ready, unacked, running, nextTag >>
    /\ UNCHANGED outsideConsumer

\* subscribe: one await channel.bindQueue(...) of the loop over the topics
QueueBound(ok) ==
    /\ subPc = "bindQueue"
    /\ ok => channelOpen
    /\ UNCHANGED channelVars
    /\ boundCount < Cardinality(SubscriptionTopics)
    /\ IF ok
       THEN /\ boundCount' = boundCount + 1
            /\ subPc' = IF boundCount + 1 = Cardinality(SubscriptionTopics)
                        THEN "prefetch" ELSE "bindQueue"
            /\ UNCHANGED << prefetchCount, consumerOn >>
       ELSE SubscribeFails
    /\ UNCHANGED << ready, unacked, running, nextTag >>
    /\ UNCHANGED outsideConsumer

\* subscribe: await channel.prefetch(1)
PrefetchSet(ok) ==
    /\ subPc = "prefetch"
    /\ ok => channelOpen
    /\ UNCHANGED channelVars
    /\ IF ok
       THEN /\ prefetchCount' = PrefetchCount
            /\ subPc' = "consume"
            /\ UNCHANGED << boundCount, consumerOn >>
       ELSE SubscribeFails
    /\ UNCHANGED << ready, unacked, running, nextTag >>
    /\ UNCHANGED outsideConsumer

\* subscribe: await channel.consume(queueName, callback, {noAck: false})
ConsumeStarted(ok) ==
    /\ subPc = "consume"
    /\ ok => channelOpen
    /\ UNCHANGED << channelGen, channelOpen >>
    /\ consumerGen' = IF ok THEN channelGen ELSE consumerGen
    /\ IF ok
       THEN /\ consumerOn' = TRUE
            /\ subPc' = "started"
            /\ UNCHANGED << boundCount, prefetchCount >>
       ELSE SubscribeFails
    /\ UNCHANGED << ready, unacked, running, nextTag >>
    /\ UNCHANGED outsideConsumer

\* a producer publishes on a bound topic: the message is ready in the queue
Enqueue ==
    /\ boundCount > 0
    /\ ready < MaxReady
    /\ nextTag + ready <= MaxDeliveries
    /\ ready' = ready + 1
    /\ UNCHANGED << subPc, boundCount, prefetchCount, consumerOn, unacked, running, nextTag >>
    /\ UNCHANGED channelVars
    /\ UNCHANGED outsideConsumer

\* the broker delivers a ready message to the consumer, which it does only
\* while the consumer's unacknowledged deliveries are below the prefetch
\* limit; the consume callback starts and runs up to await handler(eventData)
Deliver ==
    /\ consumerOn
    /\ ready > 0
    /\ nextTag <= MaxDeliveries
    /\ prefetchCount = 0 \/ Cardinality(unacked) < prefetchCount
    /\ ready' = ready - 1
    /\ unacked' = unacked \cup {nextTag}
    /\ running' = running \cup {nextTag}
    /\ nextTag' = nextTag + 1
    /\ UNCHANGED << subPc, boundCount, prefetchCount, consumerOn >>
    /\ UNCHANGED channelVars
    /\ UNCHANGED outsideConsumer

\* the callback's handler settled: channel.ack(msg), or in the catch
\* channel.nack(msg, false, true), which makes the message ready again; a
\* delivery of a channel that has closed since can no longer be settled
Settled(tag, how) ==
    /\ tag \in running
    /\ running' = running \ {tag}
    /\ unacked' = unacked \ {tag}
    /\ ready' = IF how = "nack" /\ tag \in unacked THEN ready + 1 ELSE ready
    /\ UNCHANGED << subPc, boundCount, prefetchCount, consumerOn, nextTag >>
    /\ UNCHANGED channelVars
    /\ UNCHANGED outsideConsumer

\* the connection closes: the 'close' listener of getChannel sets
\* this.connection and this.channel to null; the broker drops the consumers
\* of the connection's channel and makes its unacknowledged deliveries ready
ConnectionCloses ==
    /\ channelOpen
    /\ channelGen < MaxChannels
    /\ channelOpen' = FALSE
    /\ consumerOn' = FALSE
    /\ ready' = ready + Cardinality(unacked)
    /\ unacked' = {}
    /\ UNCHANGED << subPc, boundCount, prefetchCount, running, nextTag,
                    channelGen, consumerGen >>
    /\ UNCHANGED outsideConsumer

\* a later getChannel (publishEvent of an outcome event) finds the handles
\* null and makes a new connection and channel; nothing calls subscribe again
GetChannelAgain ==
    /\ subPc \in {"started", "failed"}
    /\ ~channelOpen
    /\ channelGen < MaxChannels
    /\ channelGen' = channelGen + 1
    /\ channelOpen' = TRUE
    /\ UNCHANGED << subPc, boundCount, prefetchCount, consumerOn, ready, unacked,
                    running, nextTag, consumerGen >>
    /\ UNCHANGED outsideConsumer

ConsumerInit ==
    /\ ConsumerIdle
    /\ emailEnabled = FALSE
    /\ PipelineIdle
    /\ FactoryParked
    /\ ProviderParked
    /\ AppIdle
    /\ NormParked
    /\ RenderParked
    /\ EmailParked
    /\ TemplateParked
    /\ TraceParked

ConsumerNext ==
    \/ \E ok \in BOOLEAN : SubscribeCall(ok)
    \/ \E ok \in BOOLEAN : QueueAsserted(ok)
    \/ \E ok \in BOOLEAN : QueueBound(ok)
    \/ \E ok \in BOOLEAN : PrefetchSet(ok)
    \/ \E ok \in BOOLEAN : ConsumeStarted(ok)
    \/ Enqueue
    \/ Deliver
    \/ \E tag \in 1..MaxDeliveries, how \in {"ack", "nack"} : Settled(tag, how)
    \/ ConnectionCloses
    \/ GetChannelAgain

ConsumerSpec == ConsumerInit /\ [][ConsumerNext]_vars

\* the broker delivers whenever it may, and a started callback settles
ConsumerFairSpec ==
    /\ ConsumerSpec
    /\ WF_vars(Deliver)
    /\ WF_vars(\E tag \in 1..MaxDeliveries, how \in {"ack", "nack"} : Settled(tag, how))

(***************************************************************************)
(* app.ts: startConsumer, the publishers' use of the provider singleton    *)
(* while the service runs, and gracefulShutdown.                           *)
(***************************************************************************)
\* the caller of getMessagingProvider that is startConsumer; the others are
\* outcome publications (DaprEventPublisher.publishEvent)
StartCaller == 1

\* config.messageBroker.type.toLowerCase() of startConsumer
ConfigBrokerType(e) == ToLowerCase(IF e = "" THEN "rabbitmq" ELSE e)

\* provider classes that have a subscribe method
HasSubscribe(type) == type = "rabbitmq"

Running == exitCode = "none"

\* startConsumer up to `await getMessagingProvider()` or to its end
StartConsumer ==
    /\ Running
    /\ startPc = "idle"
    /\ startPc' = IF ConfigBrokerType(env) = "rabbitmq" THEN "call" ELSE "ready"
    /\ UNCHANGED << appProvider, isShuttingDown, appClosed, exitCode >>
    /\ UNCHANGED << factoryVars, outsideApp >>

\* startConsumer calls getMessagingProvider
StartGetsProvider ==
    /\ Running
    /\ startPc = "call"
    /\ fpc[StartCaller] = "idle"
    /\ GetMessagingProvider(StartCaller)

\* an outcome publication calls getMessagingProvider; events are taken once
\* startConsumer has made the HTTP server listen
PublisherGetsProvider(c) ==
    /\ Running
    /\ startPc # "idle"
    /\ c # StartCaller
    /\ GetMessagingProvider(c)

\* createProvider settles for a pending call
ProviderCreated(c) ==
    /\ Running
    /\ CreateProviderDone(c)

ProviderNotCreated(c) ==
    /\ Running
    /\ CreateProviderFails(c)

\* startConsumer after the await: `messagingProvider = ...`, then subscribe
\* if the provider has one; a rejection ends in the catch, process.exit(1)
StartAssigns ==
    /\ Running
    /\ startPc = "call"
    /\ fpc[StartCaller] = "done"
    /\ IF returned[StartCaller] > 0
       THEN /\ appProvider' = returned[StartCaller]
            /\ startPc' = IF HasSubscribe(instanceType[returned[StartCaller]])
                          THEN "subscribe" ELSE "ready"
            /\ UNCHANGED exitCode
       ELSE /\ exitCode' = "1"
            /\ UNCHANGED << appProvider, startPc >>
    /\ UNCHANGED << isShuttingDown, appClosed >>
    /\ UNCHANGED << factoryVars, outsideApp >>

\* await messagingProvider.subscribe(topics, routeEventToHandler)
Subscribed(ok) ==
    /\ Running
    /\ startPc = "subscribe"
    /\ IF ok
       THEN startPc' = "ready" /\ UNCHANGED exitCode
       ELSE exitCode' = "1" /\ UNCHANGED startPc
    /\ UNCHANGED << appProvider, isShuttingDown, appClosed >>
    /\ UNCHANGED << factoryVars, outsideApp >>

\* gracefulShutdown on a signal: a second signal forces exit(1); otherwise
\* close `messagingProvider` if it is set, then process.exit(0)
GracefulShutdown ==
    /\ Running
    /\ IF isShuttingDown
       THEN /\ exitCode' = "1"
            /\ UNCHANGED << isShuttingDown, appClosed >>
       ELSE /\ isShuttingDown' = TRUE
            /\ IF appProvider # 0
               THEN /\ appClosed' = appClosed \cup {appProvider}
                    /\ UNCHANGED exitCode
               ELSE /\ exitCode' = "0"
                    /\ UNCHANGED appClosed
    /\ UNCHANGED << startPc, appProvider >>
    /\ UNCHANGED << factoryVars, outsideApp >>

\* gracefulShutdown after `await messagingProvider.close()`
ShutdownCompleted ==
    /\ Running
    /\ isShuttingDown
    /\ appClosed # {}
    /\ exitCode' = "0"
    /\ UNCHANGED << startPc, appProvider, isShuttingDown, appClosed >>
    /\ UNCHANGED << factoryVars, outsideApp >>

AppInit ==
    /\ env \in Envs
    /\ FactoryIdle
    /\ AppIdle
    /\ emailEnabled = FALSE
    /\ PipelineIdle
    /\ ProviderParked
    /\ ConsumerIdle
    /\ NormParked
    /\ RenderParked
    /\ EmailParked
    /\ TemplateParked
    /\ TraceParked

AppNext ==
    \/ StartConsumer
    \/ StartGetsProvider
    \/ \E c \in Callers : PublisherGetsProvider(c)
    \/ \E c \in Callers : ProviderCreated(c)
    \/ \E c \in Callers : ProviderNotCreated(c)
    \/ StartAssigns
    \/ \E ok \in BOOLEAN : Subscribed(ok)
    \/ GracefulShutdown
    \/ ShutdownCompleted

AppSpec == AppInit /\ [][AppNext]_vars

(***************************************************************************)
(* Normalization applied to one logical payload in each envelope shape.    *)
(***************************************************************************)
\* processNotificationEvent(Shaped(shape, nLeaf), nTopic) up to the
\* validation of eventType
NormalizeShape(shape) ==
    /\ nOut[shape] = NotRun
    /\ nOut' = [nOut EXCEPT ![shape] = NormalizeEvent(Shaped(shape, nLeaf), nTopic)]
    /\ UNCHANGED << nLeaf, nTopic >>
    /\ UNCHANGED outsideNorm

NormalizeInit ==
    /\ nLeaf \in NormLeaves
    /\ nTopic \in EventTypeArgs
    /\ nOut = [sh \in Shapes |-> NotRun]
    /\ emailEnabled = FALSE
    /\ PipelineIdle
    /\ FactoryParked
    /\ ProviderParked
    /\ ConsumerIdle
    /\ AppIdle
    /\ RenderParked
    /\ EmailParked
    /\ TemplateParked
    /\ TraceParked

NormalizeNext == \E shape \in Shapes : NormalizeShape(shape)

NormalizeSpec == NormalizeInit /\ [][NormalizeNext]_vars

(***************************************************************************)
(* renderNotification with a template: prepareTemplateVariables, then      *)
(* TemplateService.renderTemplate.                                         *)
(***************************************************************************)
\* const templateVariables = this.prepareTemplateVariables(eventData)
PrepareVariables ==
    /\ HasTemplate(Get(rEvent, "eventType"))
    /\ rVariables = Undef
    /\ rVariables' = PrepareTemplateVariables(rEvent)
    /\ UNCHANGED << rEvent, rTemplate, rOut >>
    /\ UNCHANGED outsideRender

\* const rendered = this.templateService.renderTemplate(template, templateVariables)
RenderWithTemplate ==
    /\ rVariables # Undef
    /\ rOut = NotRendered
    /\ rOut' = RenderTemplate(rTemplate, rVariables)
    /\ UNCHANGED << rEvent, rTemplate, rVariables >>
    /\ UNCHANGED outsideRender

\* if (!template) return this.createBasicNotification(eventData, channel)
RenderWithoutTemplate ==
    /\ ~HasTemplate(Get(rEvent, "eventType"))
    /\ rOut = NotRendered
    /\ rOut' = CreateBasicNotification(rEvent)
    /\ UNCHANGED << rEvent, rTemplate, rVariables >>
    /\ UNCHANGED outsideRender

RenderInit ==
    /\ rEvent \in RenderEvents \cup UntemplatedEvents
    /\ rTemplate \in RenderTemplates
    /\ rVariables = Undef
    /\ rOut = NotRendered
    /\ emailEnabled = FALSE
    /\ PipelineIdle
    /\ FactoryParked
    /\ ProviderParked
    /\ ConsumerIdle
    /\ AppIdle
    /\ NormParked
    /\ EmailParked
    /\ TemplateParked
    /\ TraceParked

RenderNext ==
    \/ PrepareVariables
    \/ RenderWithTemplate
    \/ RenderWithoutTemplate

RenderSpec == RenderInit /\ [][RenderNext]_vars

(***************************************************************************)
(* EmailService: constructor and sendNotificationEmail.                    *)
(***************************************************************************)
\* mutation: the constructor does not consult provider.isConfigured()
EnabledAfterConstruction_ConfigOnly(configEnabled, providerConfigured) ==
    configEnabled

\* this.enabled after the constructor
EnabledAfterConstruction(configEnabled, providerConfigured) ==
    configEnabled /\ providerConfigured

\* new EmailService()
EmailServiceConstructor ==
    /\ ePc = "new"
    /\ eEnabled' = EnabledAfterConstruction(eConfigEnabled, eProviderConfigured)
    /\ ePc' = "idle"
    /\ UNCHANGED << eConfigEnabled, eProviderConfigured, eSendEmailCalls, eOutcomes,
                    eResults >>
    /\ UNCHANGED outsideEmail

\* sendNotificationEmail up to the await of provider.sendEmail; htmlOk is
\* whether generateEmailHTML returns (message.replace exists only on strings)
SendNotificationEmailCall(htmlOk) ==
    /\ ePc = "idle"
    /\ Len(eResults) < MaxSends
    /\ IF ~eEnabled \/ ~htmlOk
       THEN /\ eResults' = Append(eResults, "false")
            /\ UNCHANGED << ePc, eSendEmailCalls >>
       ELSE /\ eSendEmailCalls' = eSendEmailCalls + 1
            /\ ePc' = "sending"
            /\ UNCHANGED eResults
    /\ UNCHANGED << eConfigEnabled, eProviderConfigured, eEnabled, eOutcomes >>
    /\ UNCHANGED outsideEmail

\* provider.sendEmail settles and sendNotificationEmail returns
SendEmailSettles(providerOutcome) ==
    /\ ePc = "sending"
    /\ eOutcomes' = Append(eOutcomes, providerOutcome)
    /\ eResults' = Append(eResults, SendNotificationEmail(eEnabled, providerOutcome))
    /\ ePc' = "idle"
    /\ UNCHANGED << eConfigEnabled, eProviderConfigured, eEnabled, eSendEmailCalls >>
    /\ UNCHANGED outsideEmail

EmailInit ==
    /\ eConfigEnabled \in BOOLEAN
    /\ eProviderConfigured \in BOOLEAN
    /\ eEnabled = FALSE
    /\ ePc = "new"
    /\ eSendEmailCalls = 0
    /\ eOutcomes = << >>
    /\ eResults = << >>
    /\ emailEnabled = FALSE
    /\ PipelineIdle
    /\ FactoryParked
    /\ ProviderParked
    /\ ConsumerIdle
    /\ AppIdle
    /\ NormParked
    /\ RenderParked
    /\ TemplateParked
    /\ TraceParked

EmailNext ==
    \/ EmailServiceConstructor
    \/ \E htmlOk \in BOOLEAN : SendNotificationEmailCall(htmlOk)
    \/ \E o \in ProviderSendOutcomes : SendEmailSettles(o)

EmailSpec == EmailInit /\ [][EmailNext]_vars

(***************************************************************************)
(* TemplateService: constructor, then getTemplate.                         *)
(***************************************************************************)
\* new TemplateService(): this.templates = new Map(); this.loadDefaultTemplates()
TemplateServiceConstructor ==
    /\ tTemplates = NotLoaded
    /\ tTemplates' = LoadDefaultTemplates(tCatalog)
    /\ UNCHANGED << tCatalog, tEventType, tChannel, tResult >>
    /\ UNCHANGED outsideTemplate

\* await templateService.getTemplate(eventType, channel)
GetTemplateCall ==
    /\ tTemplates # NotLoaded
    /\ tResult = NotCalled
    /\ tResult' = GetTemplate(tTemplates, tEventType, tChannel)
    /\ UNCHANGED << tCatalog, tEventType, tChannel, tTemplates >>
    /\ UNCHANGED outsideTemplate

TemplateInit ==
    /\ tCatalog \in Catalogs
    /\ tEventType \in RequestedEventTypes
    /\ tChannel \in RequestedChannels
    /\ tTemplates = NotLoaded
    /\ tResult = NotCalled
    /\ emailEnabled = FALSE
    /\ PipelineIdle
    /\ FactoryParked
    /\ ProviderParked
    /\ ConsumerIdle
    /\ AppIdle
    /\ NormParked
    /\ RenderParked
    /\ EmailParked
    /\ TraceParked

TemplateNext ==
    \/ TemplateServiceConstructor
    \/ GetTemplateCall

TemplateSpec == TemplateInit /\ [][TemplateNext]_vars

(***************************************************************************)
(* Trace context through one or more deliveries of the same envelope.      *)
(***************************************************************************)
\* processNotificationEvent, lines 313-320; a throw ends the run
ProcessStart ==
    /\ xPc = "idle"
    /\ Len(xRuns) < MaxTraceRuns
    /\ LET ctx == ExtractTraceContext(xEnvelope, xMinted) IN
       /\ xMinted' = ctx.minted
       /\ IF ctx.status = "threw"
          THEN /\ xRuns' = Append(xRuns, [context |-> ctx, published |-> NoOutcome])
               /\ UNCHANGED << xPc, xContext >>
          ELSE /\ xContext' = ctx
               /\ xPc' = "extracted"
               /\ UNCHANGED xRuns
    /\ UNCHANGED xEnvelope
    /\ UNCHANGED outsideTrace

\* daprPublisher.publishNotificationSent / publishNotificationFailed with the
\* run's notificationId, traceId and spanId
PublishOutcome(sent) ==
    /\ xPc = "extracted"
    /\ LET payload == IF sent
                      THEN NotificationSentEvent(xEnvelope, Undef)
                      ELSE NotificationFailedEvent(xEnvelope, Undef, "Email sending failed")
           envelope == PublishedEnvelope(payload, xContext, xMinted)
       IN  /\ xRuns' = Append(xRuns, [context |-> xContext, published |-> envelope])
           /\ xMinted' = envelope.minted
    /\ xPc' = "idle"
    /\ xContext' = NoContext
    /\ UNCHANGED xEnvelope
    /\ UNCHANGED outsideTrace

TraceInit ==
    /\ xEnvelope \in TraceEnvelopes
    /\ xPc = "idle"
    /\ xContext = NoContext
    /\ xMinted = 0
    /\ xRuns = << >>
    /\ emailEnabled = FALSE
    /\ PipelineIdle
    /\ FactoryParked
    /\ ProviderParked
    /\ ConsumerIdle
    /\ AppIdle
    /\ NormParked
    /\ RenderParked
    /\ EmailParked
    /\ TemplateParked

TraceNext ==
    \/ ProcessStart
    \/ \E sent \in BOOLEAN : PublishOutcome(sent)

TraceSpec == TraceInit /\ [][TraceNext]_vars

(***************************************************************************)
(* Properties.                                                             *)
(***************************************************************************)
\* processNotificationEvent has ended (returned or thrown)
Ended == result # "none"

\* it returned without taking the 'missing eventType' exit
Completed == result = "returned" /\ ~skipped

OutcomeKind == outcome.eventType

\* C1 (as claimed): every run of processNotificationEvent hands exactly one
\* outcome event to the messaging provider's publishEvent.
C1_EveryRunPublishesOnce == Ended => providerCalls = 1

\* C1 (amended): a run that returns without the skipped exit issues exactly
\* one outcome event (sent or failed), and that event reaches the provider's
\* publishEvent exactly once when getMessagingProvider() resolves and never
\* when it rejects; a skipped run and a run that throws issue no outcome.
C1_CompletedRunPublishesOnce ==
    /\ publisherCalls <= 1
    /\ providerCalls <= publisherCalls
    /\ Ended =>
         IF Completed
         THEN /\ publisherCalls = 1
              /\ OutcomeKind \in {NOTIFICATION_SENT, NOTIFICATION_FAILED}
              /\ providerCalls = IF providerState = "resolved" THEN 1 ELSE 0
         ELSE /\ publisherCalls = 0
              /\ providerCalls = 0
              /\ outcome = NoOutcome

C1_Witness ==
    /\ pc = "done"
    /\ Completed
    /\ providerState = "resolved"
    /\ providerCalls = 1
    /\ OutcomeKind = NOTIFICATION_SENT

\* C2: on the direct-broker path, a delivery during which
\* processNotificationEvent threw is nacked (requeued) and never acked.
C2_ThrowIsNacked ==
    (caller = "broker" /\ pc = "done" /\ result = "threw")
        => (nacks = 1 /\ acks = 0)

\* C3: each delivery to the consume callback gets exactly one of ack and
\* nack-with-requeue, nothing before the handler has finished; ack only when
\* the handler returned, nack (message back on the queue) when it threw.
C3_AckXorNack ==
    /\ (caller = "broker" /\ pc # "done") =>
          (acks = 0 /\ nacks = 0 /\ inflight # NoMsg)
    /\ (caller = "broker" /\ pc = "done") =>
          /\ acks + nacks = 1
          /\ inflight = NoMsg
          /\ acks = 1 => (handlerResult = "returned" /\ ~consumeError)
          /\ handlerResult = "threw" => (nacks = 1 /\ acks = 0)
          /\ nacks = 1 => queue # << >>

C3_Witness ==
    /\ caller = "broker"
    /\ pc = "done"
    /\ handlerResult = "threw"
    /\ nacks = 1
    /\ acks = 0

C5_OutcomeMatchesDispatch ==
    /\ outcome # NoOutcome =>
          /\ pc \in {"publishing", "return", "settle", "done"}
          /\ emailSent # "none"
          /\ OutcomeKind = NOTIFICATION_SENT =>
                (outcome.recipientEmail = sentTo /\ Truthy(sentTo))
    /\ (Ended /\ ~skipped) =>
          /\ OutcomeKind = NOTIFICATION_SENT <=> (dispatchCalls = 1 /\ emailSent = "true")
          /\ ~(dispatchCalls = 1 /\ emailSent = "true") => OutcomeKind = NOTIFICATION_FAILED

\* C5, for the runs that reach the dispatch step: there the outcome does
\* match the dispatch result; only runs that threw before it have none.
C5_MatchesOnceDispatchReached ==
    /\ outcome # NoOutcome =>
          /\ pc \in {"publishing", "return", "settle", "done"}
          /\ emailSent # "none"
          /\ OutcomeKind = NOTIFICATION_SENT =>
                (outcome.recipientEmail = sentTo /\ Truthy(sentTo))
    /\ (Ended /\ ~skipped /\ emailSent # "none") =>
          /\ OutcomeKind = NOTIFICATION_SENT <=> (dispatchCalls = 1 /\ emailSent = "true")
          /\ ~(dispatchCalls = 1 /\ emailSent = "true") => OutcomeKind = NOTIFICATION_FAILED
    /\ (Ended /\ ~skipped /\ emailSent = "none") =>
          (result = "threw" /\ outcome = NoOutcome)

\* the normalized event names no recipient, or delivery is disabled
NoDelivery == ~Truthy(RecipientEmail(eventData)) \/ ~emailEnabled

\* C6 (as claimed): when no recipient is resolvable or delivery is disabled,
\* processNotificationEvent never calls the dispatcher and publishes
\* notification.failed.
C6_NoDeliveryPublishesFailed ==
    (Ended /\ NoDelivery) =>
        (dispatchCalls = 0 /\ OutcomeKind = NOTIFICATION_FAILED)

\* C6 (amended): the dispatcher is called only when a recipient exists and
\* delivery is enabled; when there is no recipient or delivery is disabled,
\* a run that reaches the dispatch step never calls it and issues
\* notification.failed (a skipped run, or one that throws in normalization
\* or rendering, issues nothing).
C6_DispatchGuard ==
    /\ dispatchCalls > 0 => (Truthy(RecipientEmail(eventData)) /\ emailEnabled)
    /\ (emailSent # "none" /\ NoDelivery) => dispatchCalls = 0
    /\ (Completed /\ NoDelivery) =>
          /\ dispatchCalls = 0
          /\ OutcomeKind = NOTIFICATION_FAILED
          /\ outcome.errorMessage = "No email address or email service disabled"

C6_Witness ==
    /\ pc = "done"
    /\ Completed
    /\ ~emailEnabled
    /\ Truthy(RecipientEmail(eventData))
    /\ dispatchCalls = 0
    /\ OutcomeKind = NOTIFICATION_FAILED

\* C7: once the dispatch step is reached the run never throws, whatever the
\* dispatcher does: a false result becomes a notification.failed outcome
\* with a non-empty errorMessage, the caller gets 200 / ack, never 500 / nack.
C7_DispatchNeverRaises ==
    /\ emailSent # "none" => result # "threw"
    /\ (emailSent # "none" /\ pc \in {"return", "settle", "done"}) =>
          result = "returned"
    /\ (dispatchCalls > 0 /\ emailSent = "false" /\ outcome # NoOutcome) =>
          /\ OutcomeKind = NOTIFICATION_FAILED
          /\ outcome.errorMessage # ""
    /\ (emailSent # "none" /\ pc = "done" /\ caller = "http") =>
          responses = << [status |-> 200, body |-> "SUCCESS"] >>
    /\ (emailSent # "none" /\ pc = "done" /\ caller = "broker") =>
          (acks = 1 /\ nacks = 0)

C7_Witness ==
    /\ caller = "broker"
    /\ pc = "done"
    /\ dispatchCalls = 1
    /\ emailSent = "false"
    /\ OutcomeKind = NOTIFICATION_FAILED
    /\ result = "returned"
    /\ acks = 1

\* C8: a failed publish of the outcome (provider returns false or throws,
\* or getMessagingProvider() rejects) is never raised: the run returns, the
\* dispatch result stands, and the publish is attempted once.
C8_PublishFailureAbsorbed ==
    /\ publishResult # "throw"
    /\ publishResult = "false" =>
          /\ result = "returned"
          /\ publisherCalls = 1
          /\ providerCalls = IF providerState = "resolved" THEN 1 ELSE 0
          /\ OutcomeKind = NOTIFICATION_SENT <=> emailSent = "true"
    /\ (publishResult = "false" /\ pc = "done" /\ caller = "http") =>
          responses = << [status |-> 200, body |-> "SUCCESS"] >>

C8_Witness ==
    /\ pc = "done"
    /\ caller = "http"
    /\ publishResult = "false"
    /\ providerState = "rejected"
    /\ emailSent = "true"
    /\ result = "returned"

\* no event type can be derived: none in the payload and an empty topic
NoEventType ==
    ~Truthy(Get(eventData, "eventType")) /\ eventType = EmptyString

\* C9: a run takes the skipped exit iff no event type is derivable, and a
\* skipped run returns normally with no dispatcher call and no publish.
C9_SkippedIffNoEventType ==
    Ended =>
        /\ skipped <=> NoEventType
        /\ skipped => /\ result = "returned"
                      /\ dispatchCalls = 0
                      /\ publisherCalls = 0
                      /\ providerCalls = 0

\* C10: an exception raised in normalization or rendering leaves
\* processNotificationEvent as an exception (the caller answers 500), and
\* that run sends no email and issues no outcome.
C10_EarlyExceptionPropagates ==
    /\ (Ended /\ emailSent = "none" /\ ~skipped) => result = "threw"
    /\ (pc = "return" /\ ~skipped /\ emailSent = "none") =>
          (eventData.t # "obj" \/ RenderThrows(eventData))
    /\ result = "threw" =>
          /\ dispatchCalls = 0
          /\ publisherCalls = 0
          /\ providerCalls = 0
          /\ outcome = NoOutcome
    /\ (result = "threw" /\ pc = "done" /\ caller = "http") =>
          responses = << [status |-> 500, body |-> "ERROR"] >>

C10_Witness ==
    /\ caller = "http"
    /\ pc = "done"
    /\ result = "threw"
    /\ RenderThrows(eventData)
    /\ dispatchCalls = 0
    /\ outcome = NoOutcome

(***************************************************************************)
(* Properties of the provider singleton (FactorySpec).                     *)
(***************************************************************************)
Resolved(c) == fpc[c] = "done" /\ returned[c] > 0

\* C11: as long as the singleton was never cleared, concurrent first calls
\* create exactly one provider instance and every caller receives that
\* same instance.
C11_OneInstanceForConcurrentCallers ==
    clears = 0 =>
        /\ Len(instanceType) <= 1
        /\ \A c, d \in Callers :
              (Resolved(c) /\ Resolved(d)) => returned[c] = returned[d]

\* C12 (as claimed): a call that begins after some call has resolved neither
\* reads the provider type again nor resolves to another instance than the
\* first one resolved, whatever closes and resets came in between.
C12_LaterCallsReturnFirstInstance ==
    \A c \in Callers :
        late[c] => /\ fpc[c] # "creating"
                   /\ Resolved(c) => returned[c] = firstResolved

\* C12 (amended): a call that finds the singleton set resolves to exactly
\* that instance without reading the provider type; only a call that finds
\* it null (never created, cleared by close or reset) reads the type and
\* creates an instance.
C12_CachedInstanceReturned ==
    \A c \in Callers :
        /\ fpc[c] = "creating" => seen[c] = 0
        /\ (fpc[c] = "done" /\ seen[c] # 0) => returned[c] = seen[c]
        /\ (fpc[c] = "done" /\ seen[c] = 0) =>
              (returned[c] = -1 \/ returned[c] \in 1..Len(instanceType))

\* a call found the singleton set after a clear and got that instance, which
\* is not the first one the process resolved
C12_Witness ==
    \E c \in Callers :
        /\ fpc[c] = "done" /\ seen[c] # 0 /\ returned[c] = seen[c]
        /\ clears > 0
        /\ returned[c] # firstResolved

(***************************************************************************)
(* Properties of the providers (ProviderSpec).                             *)
(***************************************************************************)
\* C13: publishEvent of every provider never throws; a call that failed
\* while building the envelope, obtaining the client / channel / sender or
\* sending resolves to false, and a call resolves to true only when the
\* transport took the message.
C13_PublishEventNeverThrows ==
    \A p \in Publishers :
        /\ pres[p] # "throw"
        /\ ppc[p] = "done" =>
              /\ pres[p] \in {"true", "false"}
              /\ pfail[p] # "none" => pres[p] = "false"
              /\ pres[p] = "true" => (paccepted[p] /\ pfail[p] = "none")

\* on the RabbitMQ provider one call failed in channel.publish and resolved
\* to false while another call resolved to true
C13_Witness ==
    \E p \in Publishers :
        /\ kind = "rabbitmq"
        /\ ppc[p] = "done" /\ pfail[p] = "send" /\ pres[p] = "false"
        /\ \E q \in Publishers : ppc[q] = "done" /\ pres[q] = "true"

(***************************************************************************)
(* Properties of the direct-broker consumer (ConsumerSpec).                *)
(***************************************************************************)
\* C14: the prefetch limit is 1 before the callback is registered, at most
\* one delivery is unacknowledged at any time and at most one invocation of
\* the callback is in progress.
C14_OneInFlight ==
    /\ consumerOn => prefetchCount = 1
    /\ Cardinality(unacked) <= 1
    /\ Cardinality(running) <= 1

\* a second delivery is being handled after the first was settled, while
\* another message waits in the queue
C14_Witness ==
    /\ running = {2}
    /\ unacked = {2}
    /\ ready > 0

(***************************************************************************)
(* Properties of startup and shutdown (AppSpec).                           *)
(***************************************************************************)
\* C15: when gracefulShutdown has ended with process.exit(0), every provider
\* instance that an outcome publication obtained from the factory, in any
\* transport mode, has had its close() called.
C15_ShutdownClosesProvider ==
    exitCode = "0" =>
        \A c \in Callers \ {StartCaller} :
            Resolved(c) => returned[c] \in appClosed

(***************************************************************************)
(* Further properties of the pipeline (Spec).                              *)
(***************************************************************************)
\* C16: when dispatch was skipped because delivery is disabled (a recipient
\* address is there), the errorMessage of the published notification.failed
\* differs from the one the same event gets when dispatch is skipped for
\* want of a recipient address.
C16_SkipCausesDistinguished ==
    (/\ OutcomeKind = NOTIFICATION_FAILED
     /\ dispatchCalls = 0
     /\ Truthy(recipientEmail)
     /\ ~emailEnabled)
    => outcome.errorMessage # OutcomeEvent(eventData, Undef, FALSE, FALSE).errorMessage

(***************************************************************************)
(* Properties of normalization (NormalizeSpec).                            *)
(***************************************************************************)
AllShapesRun == \A sh \in Shapes : nOut[sh] # NotRun

\* the heuristic of the legacy format finds the payload
Detectable(leaf) ==
    \/ Truthy(Get(leaf, "email"))
    \/ Truthy(Get(leaf, "userId"))
    \/ Truthy(Get(leaf, "firstName"))

\* C17 (as claimed): for every logical payload, flat, wrapped and legacy
\* shape normalize to the same eventType, userId and data.
C17_ShapeIndependent ==
    AllShapesRun =>
        \A a, b \in Shapes :
            /\ nOut[a].status = nOut[b].status
            /\ Get(nOut[a].eventData, "eventType") = Get(nOut[b].eventData, "eventType")
            /\ Get(nOut[a].eventData, "userId") = Get(nOut[b].eventData, "userId")
            /\ Get(nOut[a].eventData, "data") = Get(nOut[b].eventData, "data")

\* C17 (amended): for a logical payload that has a truthy email, userId or
\* firstName and no data field of its own, the three shapes normalize to
\* the same event: same exit, same eventType, userId, data and every other
\* field.
C17_ShapeIndependentWhenDetectable ==
    (AllShapesRun /\ Detectable(nLeaf) /\ ~Truthy(Get(nLeaf, "data"))) =>
        \A a, b \in Shapes :
            /\ nOut[a].status = nOut[b].status
            /\ nOut[a].eventData = nOut[b].eventData

\* a registration payload went through all three shapes and came out with
\* its email as userId and the topic as eventType
C17_Witness ==
    /\ AllShapesRun
    /\ nLeaf = Registered
    /\ nTopic = <<"auth", "user", "registered">>
    /\ \A sh \in Shapes :
          /\ nOut[sh].status = "ok"
          /\ Get(nOut[sh].eventData, "userId") = Email1
          /\ Get(nOut[sh].eventData, "eventType") = Str(nTopic)

\* the object the code takes as the payload of an envelope
Payload(ce) == At(ce, EventDataPath(ce))

ExpectedEventType(payload, topic) ==
    IF Truthy(Get(payload, "eventType")) THEN Get(payload, "eventType") ELSE Str(topic)

ExpectedUserId(payload) ==
    IF Truthy(Get(payload, "userId")) THEN Get(payload, "userId")
    ELSE IF Truthy(Get(payload, "email")) THEN Get(payload, "email")
    ELSE IF Truthy(Get(payload, "username")) THEN Get(payload, "username")
    ELSE Get(payload, "userId")

\* C18: after normalization that did not throw, eventType is the payload's
\* own eventType when it has a (truthy) one and the topic otherwise, and
\* userId is the payload's (truthy) userId, else its email, else its username.
C18_EventTypeAndUserId ==
    \A sh \in Shapes :
        nOut[sh].status \in {"ok", "skipped"} =>
            LET payload == Payload(Shaped(sh, nLeaf)) IN
            /\ Get(nOut[sh].eventData, "eventType") = ExpectedEventType(payload, nTopic)
            /\ Get(nOut[sh].eventData, "userId") = ExpectedUserId(payload)

\* a payload with only a username was normalized: the username became the
\* userId and the topic the eventType; and one with email and username got
\* the email
C18_Witness ==
    /\ nLeaf = Obj([email |-> Email1, username |-> Str(<<"al">>)])
    /\ nTopic = <<"custom", "event">>
    /\ nOut["wrapped"].status = "ok"
    /\ Get(nOut["wrapped"].eventData, "userId") = Email1
    /\ Get(nOut["wrapped"].eventData, "eventType") = Str(<<"custom", "event">>)

(***************************************************************************)
(* Properties of rendering (RenderSpec).                                   *)
(***************************************************************************)
\* C19: the variable set has the base fields, the root-level fields and the
\* fields of data as keys, and for every key the value under data wins over
\* the root-level value, which wins over the base field.
C19_OverlayPrecedence ==
    rVariables # Undef =>
        LET data == Get(rEvent, "data")
            dataKeys == IF data.t = "obj" THEN Keys(data) ELSE {}
            topKeys == {k \in Keys(rEvent) \ {"data"} : rEvent.o[k] # Undef}
        IN  /\ Keys(rVariables) = BaseKeys \cup topKeys \cup dataKeys
            /\ \A k \in Keys(rVariables) :
                  rVariables.o[k] =
                      IF k \in dataKeys THEN data.o[k]
                      ELSE IF k \in topKeys THEN rEvent.o[k]
                      ELSE Undef

\* root-level subject A and data.subject B: the variable subject is B
C19_Witness ==
    /\ rVariables # Undef
    /\ Get(rEvent, "subject") = Str(<<"A">>)
    /\ Get(rVariables, "subject") = Str(<<"B">>)

RECURSIVE SinglePass(_, _)
\* the text in which every {{k}} with k a key is the string form of the
\* value of k and every other placeholder is left as it is
SinglePass(text, variables) ==
    IF Len(text) = 0 THEN << >>
    ELSE LET tok == text[1]
             out == IF tok.k = "ph" /\ tok.n \in Keys(variables)
                    THEN StringOf(variables.o[tok.n])
                    ELSE << tok >>
         IN  out \o SinglePass(Tail(text), variables)

\* C20: renderTemplate returns subject and message in which every {{k}} for
\* a key k of the variable set is replaced by the string form of its value
\* (empty for null / undefined) and every other placeholder is left verbatim.
C20_RenderSubstitutes ==
    rOut # NotRendered =>
        /\ rOut.status = "ok"
        /\ rOut.subject = SinglePass(rTemplate.subject, rVariables)
        /\ rOut.message = SinglePass(rTemplate.message_template, rVariables)

\* a text with no character in it
TextEmpty(text) == \A i \in 1..Len(text) : text[i] = Lit("")

\* C21: for an event whose event type has no template, renderNotification
\* returns without throwing, and the subject is non-empty and is the event
\* type's dot-separated segments, each capitalized, joined by single spaces.
C21_FallbackSubject ==
    (rOut # NotRendered /\ ~HasTemplate(Get(rEvent, "eventType"))) =>
        /\ rOut.status = "ok"
        /\ ~TextEmpty(rOut.subject)
        /\ IsString(Get(rEvent, "eventType"))
        /\ rOut.subject = JoinCapitalized(Get(rEvent, "eventType").s)

\* C22: renderNotification always returns a rendered notification and never
\* throws, with a template or with the fallback.
C22_RenderNeverThrows ==
    rOut # NotRendered => rOut.status = "ok"

\* C23: the subscription list served to the sidecar names exactly the topics
\* of getSubscriptionTopics(), and every route in it is a registered POST
\* route. Stated for the states in which the service takes a request, GET
\* /dapr/subscribe among them.
C23_SubscriptionsInSync ==
    Ready =>
        /\ { s.topic : s \in SUBSCRIPTIONS } = GetSubscriptionTopics
        /\ \A s \in SUBSCRIPTIONS : s.route \in PostRoutes

(***************************************************************************)
(* Properties of EmailService (EmailSpec).                                 *)
(***************************************************************************)
\* C24: every sendNotificationEmail call settles with true or false, never
\* with a throw, and when the service is disabled by configuration or by an
\* unconfigured provider every call returns false and the provider's
\* sendEmail is never invoked.
C24_SendNeverThrows ==
    /\ \A i \in 1..Len(eResults) : eResults[i] \in {"true", "false"}
    /\ (ePc # "new" /\ ~(eConfigEnabled /\ eProviderConfigured)) =>
           /\ eSendEmailCalls = 0
           /\ \A i \in 1..Len(eResults) : eResults[i] = "false"

\* the provider of an enabled service threw and then rejected, and both calls
\* returned false
C24_Witness ==
    /\ eEnabled
    /\ eOutcomes = << "throw", "fail" >>
    /\ eResults = << "false", "false" >>

\* connections opened by getChannel
Connections == {h \in 1..Len(resources) : resources[h].kind = "connection"}

\* C25: while nothing has closed or failed, concurrent first uses of the
\* RabbitMQ provider open one connection, and every caller that reached the
\* send holds the one cached channel.
C25_OneConnectionUnderConcurrentFirstUse ==
    (kind = "rabbitmq" /\ closes = 0 /\ connErrors = 0
        /\ \A p \in Publishers : pfail[p] = "none") =>
        /\ Cardinality(Connections) <= 1
        /\ \A p \in Publishers : ppc[p] = "send" => phandle[p] = channel

\* C26: a connection that had an 'error' event is no longer the cached
\* connection nor the parent of the cached channel, and the event did not
\* end the process.
C26_ErrorDropsCachedConnection ==
    /\ ~uncaught
    /\ \A h \in Connections : resources[h].failed =>
           /\ connection # h
           /\ channel # 0 => resources[channel].parent # h

\* senders created by getSender
Senders == {h \in 1..Len(resources) : resources[h].kind = "sender"}

\* C27: before any close(), every sender the Service Bus provider has created
\* is the one cached for its topic, so there is at most one per topic.
C27_OneSenderPerTopic ==
    (kind = "servicebus" /\ closes = 0) =>
        \A h \in Senders : senders[resources[h].topic] = h

C29_InputUnchanged ==
    \A shape \in Shapes :
        nOut[shape] # NotRun => nOut[shape].cloudEvent = Shaped(shape, nLeaf)

(***************************************************************************)
(* Properties of TemplateService (TemplateSpec).                           *)
(***************************************************************************)
\* catalog entries registered under exactly the requested pair
RegisteredEntries ==
    {i \in 1..Len(tCatalog) :
        /\ tEventType = Str(tCatalog[i].event_type)
        /\ tChannel = tCatalog[i].channel}

\* C30: getTemplate returns null when no catalog entry has exactly the
\* requested event type and channel, and otherwise the last such entry.
C30_ExactLookupLastWins ==
    tResult # NotCalled =>
        IF RegisteredEntries = {}
        THEN tResult = Null
        ELSE \E i \in RegisteredEntries :
                /\ \A j \in RegisteredEntries : j <= i
                /\ tResult = tCatalog[i]

\* two entries share the requested key and the second one was returned
C30_Witness ==
    /\ tResult # NotCalled
    /\ Cardinality(RegisteredEntries) = 2
    /\ tResult.template_name = "Order Confirmation v2"

(***************************************************************************)
(* Properties of trace context (TraceSpec).                                *)
(***************************************************************************)
\* the header the claim's priority order selects, or Undef
SelectedHeader ==
    IF Truthy(Get(xEnvelope, "traceparent")) THEN Get(xEnvelope, "traceparent")
    ELSE IF Truthy(Get(Get(xEnvelope, "data"), "traceparent"))
    THEN Get(Get(xEnvelope, "data"), "traceparent")
    ELSE IF Truthy(Get(Get(xEnvelope, "headers"), "traceparent"))
    THEN Get(Get(xEnvelope, "headers"), "traceparent")
    ELSE Undef

\* C31: the header is taken from the root, else data, else headers; of a
\* dash-delimited header the second piece is the trace id and the third the
\* span id; with no header the trace id is the delivery id, else a generated
\* id, and the span id is unset.
C31_TraceExtraction ==
    xPc = "extracted" =>
        LET h == SelectedHeader IN
        /\ (IsString(h) /\ Len(h.s) >= 3) =>
               /\ xContext.traceId = Dashed(<< h.s[2] >>)
               /\ xContext.spanId = Dashed(<< h.s[3] >>)
        /\ h = Undef =>
               /\ xContext.spanId = Undef
               /\ IF Truthy(Get(xEnvelope, "id"))
                  THEN xContext.traceId = Get(xEnvelope, "id")
                  ELSE /\ \E n \in 1..xMinted : xContext.traceId = Uuid(n)
                       /\ xContext.traceId # xContext.notificationId
                       /\ \A i \in 1..Len(xRuns) :
                              xRuns[i].context.traceId # xContext.traceId

\* headers at all three places, and the run took the one at the root
C31_Witness ==
    /\ xPc = "extracted"
    /\ Get(Get(xEnvelope, "data"), "traceparent") = H2
    /\ Get(Get(xEnvelope, "headers"), "traceparent") = H3
    /\ xContext.traceId = Dashed(<< "t1" >>)
    /\ xContext.spanId = Dashed(<< "s1" >>)

\* the finished runs that published an outcome event
PublishedRuns == { i \in 1..Len(xRuns) : xRuns[i].published # NoOutcome }

\* C32 as stated: every published outcome envelope's id is the run's trace id
C32_EnvelopeIdIsTraceId ==
    \A i \in PublishedRuns : xRuns[i].published.id = xRuns[i].context.traceId

\* C32, amended: the outcome envelope's id is the run's trace id when that is
\* a non-empty string; when the trace id is empty (a header whose second
\* segment is empty) the id is a freshly generated identifier.
C32_EnvelopeIdIsCorrelationIdOrFresh ==
    \A i \in PublishedRuns :
        LET run == xRuns[i] IN
        /\ run.published.correlationId = run.context.traceId
        /\ IF Truthy(run.context.traceId)
           THEN run.published.id = run.context.traceId
           ELSE /\ \E n \in 1..xMinted : run.published.id = Uuid(n)
                /\ run.published.id # run.context.notificationId
                /\ \A j \in PublishedRuns :
                       j # i => xRuns[j].published.id # run.published.id

\* two deliveries of an envelope whose header has an empty trace segment:
\* both outcome envelopes got generated, different ids
C32_Witness ==
    /\ Len(xRuns) = 2
    /\ PublishedRuns = {1, 2}
    /\ xRuns[1].context.traceId = Str(EmptyString)
    /\ xRuns[1].published.id # xRuns[2].published.id

\* C33: every published outcome event reports attempt 1 and carries the
\* notification id its own run minted; two runs for the same inbound event
\* publish different notification ids.
C33_AttemptOneFreshNotificationId ==
    \A i \in PublishedRuns :
        /\ xRuns[i].published.data.attemptNumber = 1
        /\ xRuns[i].published.data.notificationId = xRuns[i].context.notificationId
        /\ \A j \in PublishedRuns :
               j # i => xRuns[j].published.data.notificationId
                            # xRuns[i].published.data.notificationId

\* the same envelope processed twice under the same trace id, a sent and a
\* failed outcome published
C33_Witness ==
    /\ Len(xRuns) >= 2
    /\ {1, 2} \subseteq PublishedRuns
    /\ xRuns[1].context.traceId = xRuns[2].context.traceId
    /\ xRuns[1].published.type = NOTIFICATION_FAILED
    /\ xRuns[2].published.type = NOTIFICATION_SENT

\* C40: the traceparent attached to a published outcome event, parsed by the
\* inbound rule (second dash-separated segment the trace id, third the span
\* id), gives the trace id and span id the run used.
C40_TraceparentRoundTrip ==
    \A i \in PublishedRuns :
        LET attached == xRuns[i].published.data.traceparent IN
        /\ IncludesDash(attached)
        /\ SplitDashAt(attached, 1) = xRuns[i].context.traceId
        /\ SplitDashAt(attached, 2) = xRuns[i].context.spanId

(***************************************************************************)
(* Properties of the broker consumer path.                                 *)
(***************************************************************************)
\* C34: a parsed broker message whose topic is one of getSubscriptionTopics()
\* is routed to an export of the events controller, and its handler returns,
\* so the delivery is acknowledged and not requeued.
C34_SubscribedTopicsReachController ==
    (/\ pc = "settle"
     /\ caller = "broker"
     /\ ~consumeError
     /\ RouteTopic(inflight.routingKey) \in GetSubscriptionTopics)
        => /\ RouteEvent(inflight.routingKey).kind = "handler"
           /\ handlerResult = "returned"
           /\ ConsumeSettle(handlerResult) = "ack"

\* the body of the message is not valid JSON
Unparsable(m) == JsonParse(m.content) = NoValue

\* C36: a broker message whose body is not valid JSON is never handed to the
\* handler and never acknowledged: its delivery goes straight to the catch,
\* which nacks it and puts it back in the queue.
C36_InvalidJsonNackedAndRequeued ==
    /\ []((caller = "broker" /\ inflight # NoMsg /\ Unparsable(inflight)) =>
              /\ pc = "settle"
              /\ consumeError
              /\ handlerResult = "none"
              /\ acks = 0
              /\ outcome = NoOutcome)
    /\ [][(pc = "settle" /\ pc' = "done" /\ Unparsable(inflight)) =>
              /\ acks' = 0
              /\ nacks' = nacks + 1
              /\ queue' = << inflight >> \o queue]_vars

\* the unparsable message was delivered twice and is back in the queue
C36_Witness ==
    /\ runs = 2
    /\ caller = "broker"
    /\ pc = "done"
    /\ nacks = 1
    /\ queue # << >>
    /\ Unparsable(Head(queue))

\* C37: routing goes by the routing key, which the consumer writes over the
\* body's type field, with a leading 'com.xshopai.' removed; a topic without
\* an entry in TOPIC_HANDLERS makes routeEventToHandler return without
\* calling a controller handler, so the message is acknowledged and dropped
\* with no email and no outcome event.
C37_UnknownTopicAckedAndDropped ==
    /\ [](caller = "broker" /\ inflight # NoMsg /\ ~consumeError =>
              LET topic == RouteTopic(inflight.routingKey) IN
              /\ Get(cloudEvent, "type") = Str(inflight.routingKey)
              /\ eventType = RouteEvent(inflight.routingKey).eventType
              /\ topic \notin DOMAIN TOPIC_HANDLERS =>
                     /\ pc = "settle"
                     /\ handlerResult = "returned"
                     /\ dispatchCalls = 0
                     /\ publisherCalls = 0
                     /\ outcome = NoOutcome)
    /\ [][(/\ pc = "settle"
           /\ pc' = "done"
           /\ ~consumeError
           /\ RouteTopic(inflight.routingKey) \notin DOMAIN TOPIC_HANDLERS) =>
              /\ acks' = 1
              /\ nacks' = 0
              /\ queue' = queue
              /\ dispatchCalls' = 0
              /\ outcome' = NoOutcome]_vars

\* a message whose body names a routed type arrived under an unrouted
\* routing key and was acknowledged without a run of the pipeline
C37_Witness ==
    /\ caller = "broker"
    /\ pc = "done"
    /\ Get(cloudEvent, "type") = Str(<< "notification-service-queue" >>)
    /\ acks = 1
    /\ dispatchCalls = 0
    /\ outcome = NoOutcome
    /\ queue = << >>

\* subscribe has completed, the provider holds a channel newer than the one
\* the consumer was registered on, and a message waits in the service queue
WaitingAfterReconnect ==
    /\ subPc = "started"
    /\ channelOpen
    /\ channelGen > consumerGen
    /\ ready > 0
    /\ nextTag <= MaxDeliveries

\* C35: after the connection has closed and getChannel has made a new
\* connection and channel, a message in the service queue is eventually
\* delivered to the subscribed handler.
C35_ConsumptionResumes == WaitingAfterReconnect ~> (running # {})

\* C38: when close() of the RabbitMQ provider returns, this.channel and
\* this.connection are both null, also when closing one of them failed.
C38_CloseLeavesNoHandles ==
    [][(/\ kind = "rabbitmq"
        /\ cpc' = "idle"
        /\ cpc # "idle" \/ closes' # closes)
           => (channel' = 0 /\ connection' = 0)]_vars

(***************************************************************************)
(* Order of substitution in renderTemplate (RenderSpec).                   *)
(***************************************************************************)
RECURSIVE SubstituteDownFrom(_, _, _)
\* the forEach of renderTemplate when Object.keys yields the same keys in the
\* opposite order (the payload listed its fields the other way round)
SubstituteDownFrom(text, i, variables) ==
    IF i < 1 THEN text
    ELSE IF KeyOrder[i] \in Keys(variables)
    THEN SubstituteDownFrom(ReplaceAll(text, KeyOrder[i], StringOf(variables.o[KeyOrder[i]])),
                            i - 1, variables)
    ELSE SubstituteDownFrom(text, i - 1, variables)

\* the placeholders of a text
Placeholders(text) == { text[i].n : i \in { j \in 1..Len(text) : text[j].k = "ph" } }

\* the placeholders that the values of the variables bring with them
ValuePlaceholders(variables) ==
    UNION { Placeholders(StringOf(variables.o[k])) : k \in Keys(variables) }

\* C39: renderTemplate substitutes in one pass over the template: a
\* placeholder that enters the output through a value stays in the output,
\* and the result is the same when the keys are visited in the opposite
\* order.
C39_SinglePassOrderIndependent ==
    (rOut # NotRendered /\ rOut.status = "ok" /\ rVariables # Undef) =>
        /\ rOut.subject = SubstituteDownFrom(rTemplate.subject, Len(KeyOrder), rVariables)
        /\ rOut.message =
               SubstituteDownFrom(rTemplate.message_template, Len(KeyOrder), rVariables)
        /\ \A n \in ValuePlaceholders(rVariables) :
               (\E k \in Keys(rVariables) :
                    /\ n \in Placeholders(StringOf(rVariables.o[k]))
                    /\ k \in Placeholders(rTemplate.message_template))
                   => n \in Placeholders(rOut.message)

====
